---- MODULE Spec2Model ----
(***************************************************************************)
(* Driver-profile extraction service: the PDF text parser                  *)
(* (enhanced_pdf_parser.py over the catalog of enhanced_field_mapping.py), *)
(* the profile assembler (models/driver_profile.py), the profile service   *)
(* (services/profile_service.py) and the create-profile request handler    *)
(* (routes/driver_profiles.py).                                            *)
(*                                                                         *)
(* Texts are TLA+ strings, character for character the Python strings.     *)
(* Positions are 1-based; a match records the position after its last      *)
(* character.  Python values are tagged records (PyNone, PyStr, PyBool).   *)
(***************************************************************************)
EXTENDS Integers, Sequences, FiniteSets, TLC

VARIABLES
    pc,                 \* position of the operation in progress
    raw_text,           \* the text extracted from the document
    field,              \* catalog index of the FieldMapping being resolved
    raw_value,          \* the captured string handed to _convert_field_value
    field_type,         \* the FieldType handed to _convert_field_value
    value,              \* the value returned by the resolver / the coercion
    employment_history, \* the list returned by _extract_employment_history
    capture,            \* how the captured string under coercion was written
    document,           \* what the text under extraction was written from
    parse_result,       \* parse_pdf in progress, its result or its exception
    profile,            \* the assembled driver profile
    request,            \* the upload the handler is answering
    response,           \* the handler's answer: HTTP status and body
    temp_path,          \* the handler's local temp_path
    temp_files,         \* the temporary files that exist
    profiles,           \* the rows of the driver_profiles table
    storage,            \* how the database answers an insert
    handled             \* the number of requests received

routeVars == <<request, response, temp_path, temp_files, profiles, storage, handled>>

vars == <<pc, raw_text, field, raw_value, field_type, value, employment_history,
          capture, document, parse_result, profile, request, response, temp_path,
          temp_files, profiles, storage, handled>>

----------------------------------------------------------------------------
(* Characters and Python string methods                                    *)

Digit == {"0", "1", "2", "3", "4", "5", "6", "7", "8", "9"}

LowerAlpha == {"a", "b", "c", "d", "e", "f", "g", "h", "i", "j", "k", "l", "m",
               "n", "o", "p", "q", "r", "s", "t", "u", "v", "w", "x", "y", "z"}

UpperAlpha == {"A", "B", "C", "D", "E", "F", "G", "H", "I", "J", "K", "L", "M",
               "N", "O", "P", "Q", "R", "S", "T", "U", "V", "W", "X", "Y", "Z"}

Alpha == LowerAlpha \cup UpperAlpha

\* The characters of the model's strings are those of Latin-1.  Of these,
\* the ones str.isspace() holds for: what str.strip() removes and what \s
\* matches in a str pattern.  Besides the blank, \t, \n, \r and \f these
\* are \x0b, \x1c to \x1f, \x85 and \xa0, in this order below.
Space == {" ", "\t", "\n", "\r", "\f",
          "",
          "",
          "",
          "",
          "",
          "",
          " "}

\* The white space int() and float() skip in a str of ASCII characters.
AsciiSpace == {" ", "\t", "\n", "\r", "\f",
               ""}

\* The upper-case letters of Latin-1 beyond A-Z.
UpperLatin == {"À", "Á", "Â", "Ã", "Ä", "Å", "Æ", "Ç", "È", "É",
               "Ê", "Ë", "Ì", "Í", "Î", "Ï", "Ð", "Ñ", "Ò", "Ó",
               "Ô", "Õ", "Ö", "Ø", "Ù", "Ú", "Û", "Ü", "Ý", "Þ"}

LowerMap ==
    [c \in UpperAlpha \cup UpperLatin |->
        CASE c = "A" -> "a" [] c = "B" -> "b" [] c = "C" -> "c" [] c = "D" -> "d"
          [] c = "E" -> "e" [] c = "F" -> "f" [] c = "G" -> "g" [] c = "H" -> "h"
          [] c = "I" -> "i" [] c = "J" -> "j" [] c = "K" -> "k" [] c = "L" -> "l"
          [] c = "M" -> "m" [] c = "N" -> "n" [] c = "O" -> "o" [] c = "P" -> "p"
          [] c = "Q" -> "q" [] c = "R" -> "r" [] c = "S" -> "s" [] c = "T" -> "t"
          [] c = "U" -> "u" [] c = "V" -> "v" [] c = "W" -> "w" [] c = "X" -> "x"
          [] c = "Y" -> "y" [] c = "Z" -> "z"
          [] c = "À" -> "à" [] c = "Á" -> "á" [] c = "Â" -> "â" [] c = "Ã" -> "ã"
          [] c = "Ä" -> "ä" [] c = "Å" -> "å" [] c = "Æ" -> "æ" [] c = "Ç" -> "ç"
          [] c = "È" -> "è" [] c = "É" -> "é" [] c = "Ê" -> "ê" [] c = "Ë" -> "ë"
          [] c = "Ì" -> "ì" [] c = "Í" -> "í" [] c = "Î" -> "î" [] c = "Ï" -> "ï"
          [] c = "Ð" -> "ð" [] c = "Ñ" -> "ñ" [] c = "Ò" -> "ò" [] c = "Ó" -> "ó"
          [] c = "Ô" -> "ô" [] c = "Õ" -> "õ" [] c = "Ö" -> "ö" [] c = "Ø" -> "ø"
          [] c = "Ù" -> "ù" [] c = "Ú" -> "ú" [] c = "Û" -> "û" [] c = "Ü" -> "ü"
          [] c = "Ý" -> "ý" [] c = "Þ" -> "þ"]

CharAt(s, i) == SubSeq(s, i, i)

\* str(n) of a natural number, and its two-digit form
RECURSIVE IntStr(_)
IntStr(n) ==
    IF n < 10 THEN CharAt("0123456789", n + 1)
    ELSE IntStr(n \div 10) \o CharAt("0123456789", (n % 10) + 1)
TwoDigits(n) == IF n < 10 THEN "0" \o IntStr(n) ELSE IntStr(n)

\* str.lower()
RECURSIVE Lower(_)
Lower(s) ==
    IF Len(s) = 0 THEN ""
    ELSE IF Len(s) = 1 THEN (IF s \in DOMAIN LowerMap THEN LowerMap[s] ELSE s)
    ELSE LET h == Len(s) \div 2
         IN  Lower(SubSeq(s, 1, h)) \o Lower(SubSeq(s, h + 1, Len(s)))

\* str.strip(): s from its first to its last non-whitespace character
Strip(s) ==
    LET keep == {i \in 1..Len(s) : CharAt(s, i) \notin Space}
    IN  IF keep = {} THEN ""
        ELSE SubSeq(s, CHOOSE i \in keep : \A j \in keep : i <= j,
                       CHOOSE i \in keep : \A j \in keep : i >= j)

\* What int() and float() skip around a number: the white space they know
\* in ASCII, and the white space beyond ASCII, which they read as blanks.
NumSpace == AsciiSpace \cup {"",
                             " "}
NumStrip(s) ==
    LET keep == {i \in 1..Len(s) : CharAt(s, i) \notin NumSpace}
    IN  IF keep = {} THEN ""
        ELSE SubSeq(s, CHOOSE i \in keep : \A j \in keep : i <= j,
                       CHOOSE i \in keep : \A j \in keep : i >= j)

\* A zfill that pads nothing.
Zfill2_Unpadded(s) == s

\* str.zfill(2) of a digit string
Zfill2(s) == IF Len(s) < 2 THEN "0" \o s ELSE s

----------------------------------------------------------------------------
(* Python values                                                           *)

PyNone == [t |-> "None", v |-> ""]
PyStr(s) == [t |-> "str", v |-> s]
PyBool(b) == [t |-> "bool", v |-> IF b THEN "True" ELSE "False"]

PyInt(digits) == [t |-> "int", v |-> digits]      \* v: the decimal repr
PyFloat(digits) == [t |-> "float", v |-> digits]  \* v: the repr

PyList(items) == [t |-> "list", v |-> items]      \* v: the items in order

\* A dictionary that keeps the order its keys were inserted in, the order
\* repr() and the iteration over it follow: k is the keys in that order, v
\* the entries by key.  items is the <<key, value>> pairs in the order they
\* are written; a key written again keeps its place and takes the new value.
PyDict(items) ==
    LET first(key) == CHOOSE i \in DOMAIN items :
                          items[i][1] = key /\ \A j \in 1..(i - 1) : items[j][1] # key
        last(key) == CHOOSE i \in DOMAIN items :
                         items[i][1] = key /\ \A j \in (i + 1)..Len(items) : items[j][1] # key
        firsts == SelectSeq([i \in DOMAIN items |-> i], LAMBDA i : first(items[i][1]) = i)
    IN  [t |-> "dict",
         k |-> [n \in DOMAIN firsts |-> items[firsts[n]][1]],
         v |-> [key \in {items[i][1] : i \in DOMAIN items} |-> items[last(key)][2]]]

\* A tagged value, as against a record of named fields: a dataclass, or a
\* dictionary the program reads by key only, whose order is not kept.
IsValue(x) == DOMAIN x \in {{"t", "v"}, {"t", "k", "v"}}

\* repr(x) of None, a bool, an int or a float
ReprScalar(x) == IF x.t = "None" THEN "None" ELSE x.v

\* type(x).__name__
TypeName(x) == IF x.t = "None" THEN "NoneType" ELSE x.t

\* Python truthiness of a value (None, "", False, 0, 0.0, [] and {} are falsy).
Truthy(x) ==
    CASE x.t = "None" -> FALSE
      [] x.t = "str" -> x.v # ""
      [] x.t = "bool" -> x.v = "True"
      [] x.t = "int" -> x.v # "0"
      [] x.t = "float" -> x.v \notin {"0.0", "-0.0"}
      [] x.t = "list" -> Len(x.v) > 0
      [] x.t = "dict" -> Len(x.k) > 0

----------------------------------------------------------------------------
(* Regular expressions: the backtracking search of Python's re, on the     *)
(* constructs the program's patterns use.  A pattern is a sequence of      *)
(* nodes.  A pattern compiled with re.IGNORECASE is written with lower-case*)
(* literals and case-closed classes and is run on the lower-cased subject; *)
(* its groups are then cut from the original subject.                      *)

Node(op, s, cs, lo, hi, sub) ==
    [op |-> op, s |-> s, cs |-> cs, lo |-> lo, hi |-> hi, sub |-> sub]

Inf == 65535                                   \* sre's MAXREPEAT
Lit(s) == Node("lit", s, {}, 0, 0, <<>>)       \* literal text
In(cs) == Node("in", "", cs, 0, 0, <<>>)       \* [...]
NotIn(cs) == Node("notin", "", cs, 0, 0, <<>>) \* [^...]
Rep(lo, hi, body) == Node("max", "", {}, lo, hi, <<body>>)   \* greedy x{lo,hi}
Lazy(lo, hi, body) == Node("min", "", {}, lo, hi, <<body>>)  \* lazy x{lo,hi}?
Grp(k, body) == Node("grp", "", {}, k, k, <<body>>)          \* capture group k
Alt(branches) == Node("alt", "", {}, 0, 0, branches)         \* a|b, (?:...)
Ahead(body) == Node("ahead", "", {}, 0, 0, <<body>>)         \* (?=...)
AtEol == Node("eol", "", {}, 0, 0, <<>>)       \* $ under re.MULTILINE
AtEos == Node("eos", "", {}, 0, 0, <<>>)       \* $ without re.MULTILINE
AtBos == Node("bos", "", {}, 0, 0, <<>>)       \* ^ without re.MULTILINE
GrpOpen(k) == Node("open", "", {}, k, k, <<>>)
GrpClose(k) == Node("close", "", {}, k, k, <<>>)

NoGroups == <<<<0, 0>>, <<0, 0>>, <<0, 0>>>>
Fail == [pos |-> 0, g |-> NoGroups]

\* body(x): a value computed once and used by name in what follows.
With(x, body(_)) == body(x)

\* body(x) with x worked out before body is entered.
Given(x, body(_)) == CHOOSE r \in {body(v) : v \in {x}} : TRUE

\* The sequences over S of length n at most.
SeqsOf(S, n) == UNION {[1..k -> S] : k \in 0..n}

MinOf(S) == CHOOSE x \in S : \A y \in S : x <= y
MaxOf(S) == CHOOSE x \in S : \A y \in S : x >= y

\* Whether the one-character node nd accepts the character of s at position p.
CharOk(nd, s, p) ==
    /\ p <= Len(s)
    /\ IF nd.op = "in" THEN CharAt(s, p) \in nd.cs ELSE CharAt(s, p) \notin nd.cs

IsCharNode(nd) == nd.op \in {"in", "notin"}

\* A repetition whose body is a single character class.
IsCharRep(nd) ==
    nd.op \in {"max", "min"} /\ Len(nd.sub[1]) = 1 /\ IsCharNode(nd.sub[1][1])

\* The longest run of characters of class nd from position p, at most hi long.
RunLen(nd, s, p, hi) ==
    LET room == Len(s) - p + 1
        lim == IF hi < room THEN hi ELSE room
        bad == {i \in 1..lim : ~CharOk(nd, s, p + i - 1)}
    IN  IF bad = {} THEN lim ELSE MinOf(bad) - 1

\* A necessary condition for the node sequence k to match at position p:
\* the first node that must consume text accepts what is there.  It only
\* prunes alternatives that would fail before consuming anything.
RECURSIVE FirstOk(_, _, _)
FirstOk(k, s, p) ==
    IF Len(k) = 0 THEN TRUE
    ELSE LET nd == Head(k)
             rest == Tail(k)
         IN  CASE nd.op = "lit" ->
                    /\ p + Len(nd.s) - 1 <= Len(s)
                    /\ SubSeq(s, p, p + Len(nd.s) - 1) = nd.s
               [] IsCharNode(nd) -> CharOk(nd, s, p)
               [] nd.op = "grp" -> FirstOk(nd.sub[1] \o rest, s, p)
               [] nd.op \in {"max", "min"} ->
                    \/ nd.hi > 0 /\ FirstOk(nd.sub[1], s, p)
                    \/ nd.lo = 0 /\ FirstOk(rest, s, p)
               [] nd.op = "alt" ->
                    \E i \in 1..Len(nd.sub) : FirstOk(nd.sub[i] \o rest, s, p)
               [] nd.op = "ahead" ->
                    FirstOk(nd.sub[1], s, p) /\ FirstOk(rest, s, p)
               [] nd.op = "eol" ->
                    /\ p = Len(s) + 1 \/ (p <= Len(s) /\ CharAt(s, p) = "\n")
                    /\ FirstOk(rest, s, p)
               [] nd.op = "eos" ->
                    /\ p = Len(s) + 1 \/ (p = Len(s) /\ CharAt(s, p) = "\n")
                    /\ FirstOk(rest, s, p)
               [] nd.op = "bos" -> p = 1 /\ FirstOk(rest, s, p)
               [] OTHER -> TRUE

\* The match of the node sequence k at state st of subject s, alternatives
\* tried in the engine's order (a greedy repetition from its longest run
\* down, a lazy one from its shortest up, branches left to right); Fail when
\* there is none.
RECURSIVE MatchK(_, _, _)
RECURSIVE TryLengths(_, _, _, _, _)

\* The first length j of J, in the repetition's order, after which rest matches.
TryLengths(s, rest, st, J, greedy) ==
    IF J = {} THEN Fail
    ELSE LET j == IF greedy THEN MaxOf(J) ELSE MinOf(J)
             r == MatchK(s, rest, [st EXCEPT !.pos = @ + j])
         IN  IF r.pos # 0 THEN r ELSE TryLengths(s, rest, st, J \ {j}, greedy)

MatchK(s, k, st) ==
    IF Len(k) = 0 THEN st
    ELSE
    LET nd == Head(k)
        rest == Tail(k)
        n == Len(s)
        p == st.pos
    IN
    CASE nd.op = "lit" ->
           IF p + Len(nd.s) - 1 <= n /\ SubSeq(s, p, p + Len(nd.s) - 1) = nd.s
           THEN MatchK(s, rest, [st EXCEPT !.pos = p + Len(nd.s)])
           ELSE Fail
      [] IsCharNode(nd) ->
           IF CharOk(nd, s, p)
           THEN MatchK(s, rest, [st EXCEPT !.pos = p + 1])
           ELSE Fail
      [] IsCharRep(nd) ->
           LET m == RunLen(nd.sub[1][1], s, p, nd.hi)
               J == {j \in nd.lo..m : FirstOk(rest, s, p + j)}
           IN  TryLengths(s, rest, st, J, nd.op = "max")
      [] nd.op = "max" /\ ~IsCharRep(nd) ->
           LET again == [nd EXCEPT !.lo = IF @ > 0 THEN @ - 1 ELSE 0, !.hi = @ - 1]
               more == IF nd.hi > 0
                       THEN MatchK(s, nd.sub[1] \o <<again>> \o rest, st)
                       ELSE Fail
           IN  IF more.pos # 0 THEN more
               ELSE IF nd.lo = 0 THEN MatchK(s, rest, st) ELSE Fail
      [] nd.op = "min" /\ ~IsCharRep(nd) ->
           LET again == [nd EXCEPT !.lo = IF @ > 0 THEN @ - 1 ELSE 0, !.hi = @ - 1]
               skip == IF nd.lo = 0 THEN MatchK(s, rest, st) ELSE Fail
           IN  IF skip.pos # 0 THEN skip
               ELSE IF nd.hi > 0
                    THEN MatchK(s, nd.sub[1] \o <<again>> \o rest, st)
                    ELSE Fail
      [] nd.op = "grp" ->
           MatchK(s, <<GrpOpen(nd.lo)>> \o nd.sub[1] \o <<GrpClose(nd.lo)>> \o rest, st)
      [] nd.op = "open" ->
           MatchK(s, rest, [st EXCEPT !.g[nd.lo] = <<p, 0>>])
      [] nd.op = "close" ->
           MatchK(s, rest, [st EXCEPT !.g[nd.lo] = <<@[1], p>>])
      [] nd.op = "alt" ->
           LET first == MatchK(s, nd.sub[1] \o rest, st)
           IN  IF first.pos # 0 THEN first
               ELSE IF Len(nd.sub) > 1
                    THEN MatchK(s, <<[nd EXCEPT !.sub = Tail(@)]>> \o rest, st)
                    ELSE Fail
      [] nd.op = "ahead" ->
           IF MatchK(s, nd.sub[1], st).pos # 0 THEN MatchK(s, rest, st) ELSE Fail
      [] nd.op = "eol" ->
           IF p = n + 1 \/ (p <= n /\ CharAt(s, p) = "\n")
           THEN MatchK(s, rest, st) ELSE Fail
      [] nd.op = "eos" ->
           IF p = n + 1 \/ (p = n /\ CharAt(s, p) = "\n")
           THEN MatchK(s, rest, st) ELSE Fail
      [] nd.op = "bos" ->
           IF p = 1 THEN MatchK(s, rest, st) ELSE Fail

NoMatch == [start |-> 0, end |-> 0, g |-> NoGroups]

\* pattern.match(s, i): the match starting exactly at position i.
MatchAt(s, pat, i) ==
    With(MatchK(s, pat, [pos |-> i, g |-> NoGroups]), LAMBDA r :
        IF r.pos = 0 THEN NoMatch ELSE [start |-> i, end |-> r.pos, g |-> r.g])

\* The match at the least start position of I.
RECURSIVE TryStarts(_, _, _)
TryStarts(s, pat, I) ==
    IF I = {} THEN NoMatch
    ELSE With(MatchAt(s, pat, MinOf(I)), LAMBDA m :
             IF m.start # 0 THEN m ELSE TryStarts(s, pat, I \ {MinOf(I)}))

\* pattern.search(s, i): the leftmost match starting at position i or later.
SearchFrom(s, pat, i) ==
    TryStarts(s, pat, {j \in i..(Len(s) + 1) : FirstOk(pat, s, j)})

\* re.search(pattern, text, flags): ic is re.IGNORECASE.
Search(pat, text, ic) == SearchFrom(IF ic THEN Lower(text) ELSE text, pat, 1)

\* re.finditer: the successive non-overlapping matches, left to right.
RECURSIVE FindIterFrom(_, _, _)
FindIterFrom(s, pat, i) ==
    With(SearchFrom(s, pat, i), LAMBDA m :
        IF m.start = 0 THEN <<>>
        ELSE <<m>> \o FindIterFrom(s, pat, IF m.end > m.start THEN m.end ELSE m.end + 1))

FindIter(pat, text, ic) == FindIterFrom(IF ic THEN Lower(text) ELSE text, pat, 1)

\* match.group(k) and match.group(0), cut from the original text.
Group(text, m, k) == SubSeq(text, m.g[k][1], m.g[k][2] - 1)
Group0(text, m) == SubSeq(text, m.start, m.end - 1)

----------------------------------------------------------------------------
\* enhanced_field_mapping.py: the field catalog.  A pattern is the node
\* sequence of the regular expression as compiled under
\* re.IGNORECASE | re.MULTILINE | re.DOTALL, the flags _extract_field_value
\* passes to re.search.

FieldType == {"text", "email", "phone", "date", "boolean", "number",
              "address", "ssn", "array", "object"}

FieldMapping(field_name, field_type_, patterns, required, section) ==
    [field_name |-> field_name, field_type |-> field_type_,
     patterns |-> patterns, required |-> required, section |-> section]

PERSONAL_INFO_FIELDS == <<
    FieldMapping("referral_code", "text",
        << <<Lit("referral code"), Rep(0, Inf, <<In((Space \cup {":"}))>>), Grp(1, <<Rep(1, Inf, <<NotIn({"\n", "\r"})>>)>>)>>,
           <<Lit("referral"), Rep(0, Inf, <<In((Space \cup {":"}))>>), Grp(1, <<Rep(1, Inf, <<NotIn({"\n", "\r"})>>)>>)>> >>,
        FALSE, "personal"),
    FieldMapping("full_name", "text",
        << <<Lit("name"), Rep(1, Inf, <<In(Space)>>), Grp(1, <<Lazy(1, Inf, <<In((Alpha \cup Space \cup {"."}))>>)>>), Alt(<<<<Lit("\n")>>, <<AtEol>>>>)>>,
           <<Lit("full name"), Rep(0, Inf, <<In((Space \cup {":"}))>>), Grp(1, <<Rep(1, Inf, <<NotIn({"\n", "\r"})>>)>>)>> >>,
        TRUE, "personal"),
    FieldMapping("current_address", "address",
        << <<Lit("current address"), Rep(1, Inf, <<In(Space)>>), Grp(1, <<Rep(1, Inf, <<NotIn({"\n", "\r"})>>)>>)>>,
           <<Lit("address"), Rep(0, Inf, <<In((Space \cup {":"}))>>), Grp(1, <<Rep(1, Inf, <<NotIn({"\n", "\r"})>>)>>)>> >>,
        FALSE, "personal"),
    FieldMapping("city_state_zip", "text",
        << <<Lit("city, state/province zip/postal"), Rep(1, Inf, <<In(Space)>>), Grp(1, <<Rep(1, Inf, <<NotIn({"\n", "\r"})>>)>>)>>,
           <<Lit("city"), Rep(0, Inf, <<In((Space \cup {":"}))>>), Grp(1, <<Rep(1, Inf, <<NotIn({"\n", "\r"})>>)>>)>> >>,
        FALSE, "personal"),
    FieldMapping("country", "text",
        << <<Lit("country"), Rep(1, Inf, <<In(Space)>>), Grp(1, <<Rep(1, Inf, <<NotIn({"\n", "\r"})>>)>>)>> >>,
        FALSE, "personal"),
    FieldMapping("residence_duration", "text",
        << <<Lit("residence"), Rep(1, Inf, <<In(Space)>>), Grp(1, <<Rep(1, Inf, <<NotIn({"\n", "\r"})>>)>>)>>,
           <<Lit("3 years or longer"), Rep(0, Inf, <<NotIn({"\n"})>>), Grp(1, <<In({"y", "Y", "e", "E", "s", "S", "|", "n", "N", "o", "O"})>>)>> >>,
        FALSE, "personal"),
    FieldMapping("ssn", "ssn",
        << <<Lit("ssn/sin"), Rep(1, Inf, <<In(Space)>>), Grp(1, <<Rep(3, 3, <<In(Digit)>>), Lit("-"), Rep(2, 2, <<In(Digit)>>), Lit("-"), Rep(4, 4, <<In(Digit)>>)>>)>>,
           <<Lit("ssn"), Rep(0, Inf, <<In((Space \cup {":"}))>>), Grp(1, <<Rep(3, 3, <<In(Digit)>>), Lit("-"), Rep(2, 2, <<In(Digit)>>), Lit("-"), Rep(4, 4, <<In(Digit)>>)>>)>> >>,
        FALSE, "personal"),
    FieldMapping("date_of_birth", "date",
        << <<Lit("date of birth"), Rep(1, Inf, <<In(Space)>>), Grp(1, <<Rep(1, 2, <<In(Digit)>>), Lit("-"), Rep(1, 2, <<In(Digit)>>), Lit("-"), Rep(4, 4, <<In(Digit)>>)>>)>>,
           <<Lit("dob"), Rep(0, Inf, <<In((Space \cup {":"}))>>), Grp(1, <<Rep(1, 2, <<In(Digit)>>), In({"-", "/"}), Rep(1, 2, <<In(Digit)>>), In({"-", "/"}), Rep(4, 4, <<In(Digit)>>)>>)>> >>,
        FALSE, "personal"),
    FieldMapping("primary_phone", "phone",
        << <<Lit("primary phone"), Rep(1, Inf, <<In(Space)>>), Grp(1, <<Rep(3, 3, <<In(Digit)>>), Lit("-"), Rep(3, 3, <<In(Digit)>>), Lit("-"), Rep(4, 4, <<In(Digit)>>)>>)>>,
           <<Lit("phone"), Rep(0, Inf, <<In((Space \cup {":"}))>>), Grp(1, <<Rep(3, 3, <<In(Digit)>>), In((Space \cup {"-"})), Rep(3, 3, <<In(Digit)>>), In((Space \cup {"-"})), Rep(4, 4, <<In(Digit)>>)>>)>> >>,
        FALSE, "personal"),
    FieldMapping("cell_phone", "phone",
        << <<Lit("cell phone"), Rep(1, Inf, <<In(Space)>>), Grp(1, <<Rep(3, 3, <<In(Digit)>>), Lit("-"), Rep(3, 3, <<In(Digit)>>), Lit("-"), Rep(4, 4, <<In(Digit)>>)>>)>>,
           <<Lit("cell"), Rep(0, Inf, <<In((Space \cup {":"}))>>), Grp(1, <<Rep(3, 3, <<In(Digit)>>), In((Space \cup {"-"})), Rep(3, 3, <<In(Digit)>>), In((Space \cup {"-"})), Rep(4, 4, <<In(Digit)>>)>>)>> >>,
        FALSE, "personal"),
    FieldMapping("email", "email",
        << <<Lit("email"), Rep(1, Inf, <<In(Space)>>), Grp(1, <<Rep(1, Inf, <<In((Alpha \cup Digit \cup {".", "_", "%", "+", "-"}))>>), Lit("@"), Rep(1, Inf, <<In((Alpha \cup Digit \cup {".", "-"}))>>), Lit("."), Rep(2, Inf, <<In(Alpha)>>)>>)>>,
           <<Lit("e-mail"), Rep(0, Inf, <<In((Space \cup {":"}))>>), Grp(1, <<Rep(1, Inf, <<In((Alpha \cup Digit \cup {".", "_", "%", "+", "-"}))>>), Lit("@"), Rep(1, Inf, <<In((Alpha \cup Digit \cup {".", "-"}))>>), Lit("."), Rep(2, Inf, <<In(Alpha)>>)>>)>> >>,
        FALSE, "personal"),
    FieldMapping("emergency_contact_name", "text",
        << <<Lit("emergency contact name"), Rep(0, Inf, <<In((Space \cup {":"}))>>), Grp(1, <<Rep(1, Inf, <<NotIn({"\n", "\r"})>>)>>)>>,
           <<Lit("emergency contact"), Rep(0, Inf, <<In((Space \cup {":"}))>>), Grp(1, <<Rep(1, Inf, <<NotIn({"\n", "\r"})>>)>>)>> >>,
        FALSE, "personal"),
    FieldMapping("emergency_contact_phone", "phone",
        << <<Lit("emergency contact phone number"), Rep(0, Inf, <<In((Space \cup {":"}))>>), Grp(1, <<Rep(3, 3, <<In(Digit)>>), In((Space \cup {"-"})), Rep(3, 3, <<In(Digit)>>), In((Space \cup {"-"})), Rep(4, 4, <<In(Digit)>>)>>)>>,
           <<Lit("emergency"), Rep(0, Inf, <<NotIn({})>>), Lit("phone"), Rep(0, Inf, <<In((Space \cup {":"}))>>), Grp(1, <<Rep(3, 3, <<In(Digit)>>), In((Space \cup {"-"})), Rep(3, 3, <<In(Digit)>>), In((Space \cup {"-"})), Rep(4, 4, <<In(Digit)>>)>>)>> >>,
        FALSE, "personal")
>>

COMPANY_QUESTIONS_FIELDS == <<
    FieldMapping("position_applying_for", "text",
        << <<Lit("what position are you applying for?"), Rep(0, Inf, <<In(Space)>>), Grp(1, <<Rep(1, Inf, <<NotIn({"\n", "\r"})>>)>>)>>,
           <<Lit("position"), Rep(0, Inf, <<In((Space \cup {":"}))>>), Grp(1, <<Rep(1, Inf, <<NotIn({"\n", "\r"})>>)>>)>> >>,
        FALSE, "company"),
    FieldMapping("location_applying_for", "text",
        << <<Lit("what location are you applying for?"), Rep(0, Inf, <<In(Space)>>), Grp(1, <<Rep(1, Inf, <<NotIn({"\n", "\r"})>>)>>)>>,
           <<Lit("location"), Rep(0, Inf, <<In((Space \cup {":"}))>>), Grp(1, <<Rep(1, Inf, <<NotIn({"\n", "\r"})>>)>>)>> >>,
        FALSE, "company"),
    FieldMapping("legally_eligible_employment", "boolean",
        << <<Lit("are you legally eligible for employment in the united states?"), Rep(0, Inf, <<In(Space)>>), Grp(1, <<Alt(<<<<Lit("yes")>>, <<Lit("no")>>>>)>>)>>,
           <<Lit("legally eligible"), Lazy(0, Inf, <<NotIn({})>>), Rep(0, Inf, <<In(Space)>>), Grp(1, <<Alt(<<<<Lit("yes")>>, <<Lit("no")>>>>)>>)>> >>,
        FALSE, "company"),
    FieldMapping("currently_employed", "boolean",
        << <<Lit("are you currently employed?"), Rep(0, Inf, <<In(Space)>>), Grp(1, <<Alt(<<<<Lit("yes")>>, <<Lit("no")>>>>)>>)>>,
           <<Lit("currently employed"), Lazy(0, Inf, <<NotIn({})>>), Rep(0, Inf, <<In(Space)>>), Grp(1, <<Alt(<<<<Lit("yes")>>, <<Lit("no")>>>>)>>)>> >>,
        FALSE, "company"),
    FieldMapping("last_employment_end_date", "date",
        << <<Lit("what date did your last employment end?"), Rep(0, Inf, <<In(Space)>>), Grp(1, <<Rep(1, 2, <<In(Digit)>>), In({"-", "/"}), Rep(1, 2, <<In(Digit)>>), In({"-", "/"}), Rep(4, 4, <<In(Digit)>>)>>)>>,
           <<Lit("last employment end"), Lazy(0, Inf, <<NotIn({})>>), Grp(1, <<Rep(1, 2, <<In(Digit)>>), In({"-", "/"}), Rep(1, 2, <<In(Digit)>>), In({"-", "/"}), Rep(4, 4, <<In(Digit)>>)>>)>> >>,
        FALSE, "company"),
    FieldMapping("read_write_speak_english", "boolean",
        << <<Lit("do you read, write, and speak english?"), Rep(0, Inf, <<In(Space)>>), Grp(1, <<Alt(<<<<Lit("yes")>>, <<Lit("no")>>>>)>>)>>,
           <<Lit("speak english"), Lazy(0, Inf, <<NotIn({})>>), Rep(0, Inf, <<In(Space)>>), Grp(1, <<Alt(<<<<Lit("yes")>>, <<Lit("no")>>>>)>>)>> >>,
        FALSE, "company"),
    FieldMapping("worked_for_company_before", "boolean",
        << <<Lit("have you ever worked for this company before?"), Rep(0, Inf, <<In(Space)>>), Grp(1, <<Alt(<<<<Lit("yes")>>, <<Lit("no")>>>>)>>)>>,
           <<Lit("worked for this company"), Lazy(0, Inf, <<NotIn({})>>), Rep(0, Inf, <<In(Space)>>), Grp(1, <<Alt(<<<<Lit("yes")>>, <<Lit("no")>>>>)>>)>> >>,
        FALSE, "company"),
    FieldMapping("has_twic_card", "boolean",
        << <<Lit("do you have a current twic card?"), Rep(0, Inf, <<In(Space)>>), Grp(1, <<Alt(<<<<Lit("yes")>>, <<Lit("no")>>>>)>>)>>,
           <<Lit("twic card"), Lazy(0, Inf, <<NotIn({})>>), Rep(0, Inf, <<In(Space)>>), Grp(1, <<Alt(<<<<Lit("yes")>>, <<Lit("no")>>>>)>>)>> >>,
        FALSE, "company"),
    FieldMapping("twic_expiration_date", "date",
        << <<Lit("twic"), Lazy(0, Inf, <<NotIn({})>>), Lit("expiration date"), Rep(0, Inf, <<In((Space \cup {":"}))>>), Grp(1, <<Rep(1, 2, <<In(Digit)>>), Lit("-"), Rep(1, 2, <<In(Digit)>>), Lit("-"), Rep(4, 4, <<In(Digit)>>)>>)>>,
           <<Lit("twic"), Lazy(0, Inf, <<NotIn({})>>), Lit("expires"), Rep(0, Inf, <<In((Space \cup {":"}))>>), Grp(1, <<Rep(1, 2, <<In(Digit)>>), In({"-", "/"}), Rep(1, 2, <<In(Digit)>>), In({"-", "/"}), Rep(4, 4, <<In(Digit)>>)>>)>> >>,
        FALSE, "company"),
    FieldMapping("known_by_other_name", "boolean",
        << <<Lit("have you ever been known by any other name?"), Rep(0, Inf, <<In(Space)>>), Grp(1, <<Alt(<<<<Lit("yes")>>, <<Lit("no")>>>>)>>)>>,
           <<Lit("other name"), Lazy(0, Inf, <<NotIn({})>>), Rep(0, Inf, <<In(Space)>>), Grp(1, <<Alt(<<<<Lit("yes")>>, <<Lit("no")>>>>)>>)>> >>,
        FALSE, "company"),
    FieldMapping("other_name", "text",
        << <<Lit("enter name"), Rep(0, Inf, <<In((Space \cup {":"}))>>), Grp(1, <<Rep(1, Inf, <<NotIn({"\n", "\r"})>>)>>)>>,
           <<Lit("other name"), Rep(0, Inf, <<In((Space \cup {":"}))>>), Grp(1, <<Rep(1, Inf, <<NotIn({"\n", "\r"})>>)>>)>> >>,
        FALSE, "company"),
    FieldMapping("how_heard_about_us", "text",
        << <<Lit("how did you hear about us?"), Rep(0, Inf, <<In(Space)>>), Grp(1, <<Rep(1, Inf, <<NotIn({"\n", "\r"})>>)>>)>>,
           <<Lit("hear about us"), Lazy(0, Inf, <<NotIn({})>>), Rep(0, Inf, <<In(Space)>>), Grp(1, <<Rep(1, Inf, <<NotIn({"\n", "\r"})>>)>>)>> >>,
        FALSE, "company"),
    FieldMapping("referral_driver_name", "text",
        << <<Lit("driver referral"), Lazy(0, Inf, <<NotIn({})>>), Lit("enter the driver's name"), Rep(0, Inf, <<In(Space)>>), Grp(1, <<Rep(1, Inf, <<NotIn({"\n", "\r"})>>)>>)>>,
           <<Lit("driver's name"), Rep(0, Inf, <<In((Space \cup {":"}))>>), Grp(1, <<Rep(1, Inf, <<NotIn({"\n", "\r"})>>)>>)>> >>,
        FALSE, "company")
>>

DRIVING_EXPERIENCE_FIELDS == <<
    FieldMapping("straight_truck_experience", "text",
        << <<Lit("straight truck"), Rep(1, Inf, <<In(Space)>>), Grp(1, <<Rep(1, Inf, <<NotIn({"\n", "\r"})>>)>>)>>,
           <<Lit("straight"), Lazy(0, Inf, <<NotIn({})>>), Grp(1, <<Alt(<<<<Rep(1, Inf, <<In(Digit)>>), Rep(0, Inf, <<In((Space \cup {"-", "+"}))>>), Lit("year"), Rep(0, 1, <<Lit("s")>>)>>, <<Lit("none")>>>>)>>)>> >>,
        FALSE, "experience"),
    FieldMapping("tractor_semi_trailer_experience", "text",
        << <<Lit("tractor and semi-trailer"), Rep(1, Inf, <<In(Space)>>), Grp(1, <<Rep(1, Inf, <<NotIn({"\n", "\r"})>>)>>)>>,
           <<Lit("semi-trailer"), Lazy(0, Inf, <<NotIn({})>>), Grp(1, <<Alt(<<<<Rep(1, Inf, <<In(Digit)>>), Rep(0, Inf, <<In((Space \cup {"-", "+"}))>>), Lit("year"), Rep(0, 1, <<Lit("s")>>)>>, <<Lit("none")>>>>)>>)>> >>,
        FALSE, "experience"),
    FieldMapping("tractor_two_trailers_experience", "text",
        << <<Lit("tractor - two trailers"), Rep(1, Inf, <<In(Space)>>), Grp(1, <<Rep(1, Inf, <<NotIn({"\n", "\r"})>>)>>)>>,
           <<Lit("two trailers"), Lazy(0, Inf, <<NotIn({})>>), Grp(1, <<Alt(<<<<Rep(1, Inf, <<In(Digit)>>), Rep(0, Inf, <<In((Space \cup {"-", "+"}))>>), Lit("year"), Rep(0, 1, <<Lit("s")>>)>>, <<Lit("none")>>>>)>>)>> >>,
        FALSE, "experience"),
    FieldMapping("other_experience", "text",
        << <<Lit("other"), Rep(1, Inf, <<In(Space)>>), Grp(1, <<Rep(1, Inf, <<NotIn({"\n", "\r"})>>)>>)>>,
           <<Lit("other"), Lazy(0, Inf, <<NotIn({})>>), Lit("experience"), Rep(0, Inf, <<In((Space \cup {":"}))>>), Grp(1, <<Rep(1, Inf, <<NotIn({"\n", "\r"})>>)>>)>> >>,
        FALSE, "experience")
>>

LICENSE_FIELDS == <<
    FieldMapping("license_number", "text",
        << <<Lit("license number"), Rep(1, Inf, <<In(Space)>>), Grp(1, <<Rep(1, Inf, <<In((Alpha \cup Digit))>>)>>)>>,
           <<Lit("license #"), Rep(0, Inf, <<In((Space \cup {":"}))>>), Grp(1, <<Rep(1, Inf, <<In((Alpha \cup Digit))>>)>>)>> >>,
        FALSE, "license"),
    FieldMapping("licensing_authority", "text",
        << <<Lit("licensing authority"), Rep(1, Inf, <<In(Space)>>), Grp(1, <<Rep(2, 2, <<In(Alpha)>>)>>)>>,
           <<Lit("state"), Rep(0, Inf, <<In((Space \cup {":"}))>>), Grp(1, <<Rep(2, 2, <<In(Alpha)>>)>>)>> >>,
        FALSE, "license"),
    FieldMapping("license_country", "text",
        << <<Lit("country"), Rep(1, Inf, <<In(Space)>>), Grp(1, <<Alt(<<<<Lit("us")>>, <<Lit("united states")>>, <<Lit("ca")>>, <<Lit("canada")>>>>)>>)>>,
           <<Lit("license"), Lazy(0, Inf, <<NotIn({})>>), Lit("country"), Rep(0, Inf, <<In((Space \cup {":"}))>>), Grp(1, <<Rep(1, Inf, <<NotIn({"\n", "\r"})>>)>>)>> >>,
        FALSE, "license"),
    FieldMapping("license_class", "text",
        << <<Lit("license class"), Rep(1, Inf, <<In(Space)>>), Grp(1, <<Rep(1, Inf, <<NotIn({"\n", "\r"})>>)>>)>>,
           <<Lit("class"), Rep(0, Inf, <<In((Space \cup {":"}))>>), Grp(1, <<Rep(1, Inf, <<NotIn({"\n", "\r"})>>)>>)>> >>,
        FALSE, "license"),
    FieldMapping("license_expiration_date", "date",
        << <<Lit("license expiration date"), Rep(1, Inf, <<In(Space)>>), Grp(1, <<Rep(1, 2, <<In(Digit)>>), Lit("-"), Rep(1, 2, <<In(Digit)>>), Lit("-"), Rep(4, 4, <<In(Digit)>>)>>)>>,
           <<Lit("expires"), Rep(0, Inf, <<In((Space \cup {":"}))>>), Grp(1, <<Rep(1, 2, <<In(Digit)>>), In({"-", "/"}), Rep(1, 2, <<In(Digit)>>), In({"-", "/"}), Rep(4, 4, <<In(Digit)>>)>>)>> >>,
        FALSE, "license"),
    FieldMapping("dot_medical_card_expiration", "date",
        << <<Lit("dot medical card expiration date"), Rep(1, Inf, <<In(Space)>>), Grp(1, <<Rep(1, 2, <<In(Digit)>>), Lit("-"), Rep(1, 2, <<In(Digit)>>), Lit("-"), Rep(4, 4, <<In(Digit)>>)>>)>>,
           <<Lit("medical"), Lazy(0, Inf, <<NotIn({})>>), Lit("expir"), Lazy(0, Inf, <<NotIn({})>>), Grp(1, <<Rep(1, 2, <<In(Digit)>>), In({"-", "/"}), Rep(1, 2, <<In(Digit)>>), In({"-", "/"}), Rep(4, 4, <<In(Digit)>>)>>)>> >>,
        FALSE, "license"),
    FieldMapping("current_license", "boolean",
        << <<Lit("current license"), Rep(1, Inf, <<In(Space)>>), Grp(1, <<Alt(<<<<Lit("yes")>>, <<Lit("no")>>>>)>>)>>,
           <<Lit("current"), Lazy(0, Inf, <<NotIn({})>>), Lit("license"), Lazy(0, Inf, <<NotIn({})>>), Grp(1, <<Alt(<<<<Lit("yes")>>, <<Lit("no")>>>>)>>)>> >>,
        FALSE, "license"),
    FieldMapping("has_cdl", "boolean",
        << <<Lit("commercial driver license"), Rep(1, Inf, <<In(Space)>>), Grp(1, <<Alt(<<<<Lit("yes")>>, <<Lit("no")>>>>)>>)>>,
           <<Lit("cdl"), Lazy(0, Inf, <<NotIn({})>>), Grp(1, <<Alt(<<<<Lit("yes")>>, <<Lit("no")>>>>)>>)>> >>,
        FALSE, "license")
>>

ENDORSEMENT_FIELDS == <<
    FieldMapping("tanker_endorsement", "boolean",
        << <<Lit("tanker endorsement"), Rep(1, Inf, <<In(Space)>>), Grp(1, <<Alt(<<<<Lit("yes")>>, <<Lit("no")>>>>)>>)>>,
           <<Lit("tanker"), Lazy(0, Inf, <<NotIn({})>>), Grp(1, <<Alt(<<<<Lit("yes")>>, <<Lit("no")>>>>)>>)>> >>,
        FALSE, "endorsements"),
    FieldMapping("hazmat_endorsement", "boolean",
        << <<Lit("hazmat endorsement"), Rep(1, Inf, <<In(Space)>>), Grp(1, <<Alt(<<<<Lit("yes")>>, <<Lit("no")>>>>)>>)>>,
           <<Lit("hazmat"), Lazy(0, Inf, <<NotIn({})>>), Grp(1, <<Alt(<<<<Lit("yes")>>, <<Lit("no")>>>>)>>)>> >>,
        FALSE, "endorsements"),
    FieldMapping("x_endorsement", "boolean",
        << <<Lit("x endorsement"), Rep(1, Inf, <<In(Space)>>), Grp(1, <<Alt(<<<<Lit("yes")>>, <<Lit("no")>>>>)>>)>>,
           <<Lit("x"), Lazy(0, Inf, <<NotIn({})>>), Lit("endorsement"), Lazy(0, Inf, <<NotIn({})>>), Grp(1, <<Alt(<<<<Lit("yes")>>, <<Lit("no")>>>>)>>)>> >>,
        FALSE, "endorsements"),
    FieldMapping("doubles_triples_endorsement", "boolean",
        << <<Lit("doubles triples endorsement"), Rep(1, Inf, <<In(Space)>>), Grp(1, <<Alt(<<<<Lit("yes")>>, <<Lit("no")>>>>)>>)>>,
           <<Lit("doubles"), Lazy(0, Inf, <<NotIn({})>>), Lit("triples"), Lazy(0, Inf, <<NotIn({})>>), Grp(1, <<Alt(<<<<Lit("yes")>>, <<Lit("no")>>>>)>>)>> >>,
        FALSE, "endorsements"),
    FieldMapping("other_endorsement", "boolean",
        << <<Lit("other endorsement"), Rep(1, Inf, <<In(Space)>>), Grp(1, <<Alt(<<<<Lit("yes")>>, <<Lit("no")>>>>)>>)>>,
           <<Lit("other"), Lazy(0, Inf, <<NotIn({})>>), Lit("endorsement"), Lazy(0, Inf, <<NotIn({})>>), Grp(1, <<Alt(<<<<Lit("yes")>>, <<Lit("no")>>>>)>>)>> >>,
        FALSE, "endorsements")
>>

TRUCKING_SCHOOL_FIELDS == <<
    FieldMapping("trucking_school_name", "text",
        << <<Lit("school"), Rep(1, Inf, <<In(Space)>>), Grp(1, <<Rep(1, Inf, <<NotIn({"\n", "\r"})>>)>>)>>,
           <<Lit("trucking"), Lazy(0, Inf, <<NotIn({})>>), Lit("school"), Rep(0, Inf, <<In((Space \cup {":"}))>>), Grp(1, <<Rep(1, Inf, <<NotIn({"\n", "\r"})>>)>>)>> >>,
        FALSE, "education"),
    FieldMapping("school_address", "address",
        << <<Lit("school"), Lazy(0, Inf, <<NotIn({})>>), Lit("address"), Rep(0, Inf, <<In((Space \cup {":"}))>>), Grp(1, <<Rep(1, Inf, <<NotIn({"\n", "\r"})>>)>>)>>,
           <<Lit("school"), Lazy(0, Inf, <<NotIn({})>>), Lit("location"), Rep(0, Inf, <<In((Space \cup {":"}))>>), Grp(1, <<Rep(1, Inf, <<NotIn({"\n", "\r"})>>)>>)>> >>,
        FALSE, "education"),
    FieldMapping("school_city_state", "text",
        << <<Lit("school"), Lazy(0, Inf, <<NotIn({})>>), Lit("city, state/province"), Rep(0, Inf, <<In((Space \cup {":"}))>>), Grp(1, <<Rep(1, Inf, <<NotIn({"\n", "\r"})>>)>>)>>,
           <<Lit("school"), Lazy(0, Inf, <<NotIn({})>>), Lit("city"), Rep(0, Inf, <<In((Space \cup {":"}))>>), Grp(1, <<Rep(1, Inf, <<NotIn({"\n", "\r"})>>)>>)>> >>,
        FALSE, "education"),
    FieldMapping("school_phone", "phone",
        << <<Lit("school"), Lazy(0, Inf, <<NotIn({})>>), Lit("phone"), Rep(0, Inf, <<In((Space \cup {":"}))>>), Grp(1, <<Rep(3, 3, <<In(Digit)>>), In((Space \cup {"-"})), Rep(3, 3, <<In(Digit)>>), In((Space \cup {"-"})), Rep(4, 4, <<In(Digit)>>)>>)>>,
           <<Lit("school"), Lazy(0, Inf, <<NotIn({})>>), Lit("phone"), Rep(0, Inf, <<In((Space \cup {":"}))>>), Grp(1, <<Rep(3, 3, <<In(Digit)>>), In((Space \cup {"-"})), Rep(3, 3, <<In(Digit)>>), In((Space \cup {"-"})), Rep(4, 4, <<In(Digit)>>)>>)>> >>,
        FALSE, "education"),
    FieldMapping("school_graduated", "boolean",
        << <<Lit("did you graduate?"), Rep(0, Inf, <<In(Space)>>), Grp(1, <<Alt(<<<<Lit("yes")>>, <<Lit("no")>>>>)>>)>>,
           <<Lit("graduate"), Lazy(0, Inf, <<NotIn({})>>), Grp(1, <<Alt(<<<<Lit("yes")>>, <<Lit("no")>>>>)>>)>> >>,
        FALSE, "education"),
    FieldMapping("school_gpa", "number",
        << <<Lit("gpa"), Rep(1, Inf, <<In(Space)>>), Grp(1, <<Rep(1, Inf, <<In(Digit)>>), Rep(0, 1, <<Lit(".")>>), Rep(0, Inf, <<In(Digit)>>)>>)>>,
           <<Lit("grade"), Lazy(0, Inf, <<NotIn({})>>), Grp(1, <<Rep(1, Inf, <<In(Digit)>>), Rep(0, 1, <<Lit(".")>>), Rep(0, Inf, <<In(Digit)>>)>>)>> >>,
        FALSE, "education"),
    FieldMapping("school_hours", "number",
        << <<Lit("hours of instruction"), Rep(1, Inf, <<In(Space)>>), Grp(1, <<Rep(1, Inf, <<In(Digit)>>)>>)>>,
           <<Lit("instruction"), Lazy(0, Inf, <<NotIn({})>>), Lit("hours"), Rep(0, Inf, <<In((Space \cup {":"}))>>), Grp(1, <<Rep(1, Inf, <<In(Digit)>>)>>)>> >>,
        FALSE, "education")
>>

FMCSR_FIELDS == <<
    FieldMapping("currently_disqualified", "boolean",
        << <<Lit("are you currently disqualified"), Lazy(0, Inf, <<NotIn({})>>), Rep(0, Inf, <<In(Space)>>), Grp(1, <<Alt(<<<<Lit("yes")>>, <<Lit("no")>>>>)>>)>>,
           <<Lit("disqualified"), Lazy(0, Inf, <<NotIn({})>>), Grp(1, <<Alt(<<<<Lit("yes")>>, <<Lit("no")>>>>)>>)>> >>,
        FALSE, "compliance"),
    FieldMapping("license_suspended_revoked", "boolean",
        << <<Lit("license"), Lazy(0, Inf, <<NotIn({})>>), Lit("suspended or revoked"), Lazy(0, Inf, <<NotIn({})>>), Rep(0, Inf, <<In(Space)>>), Grp(1, <<Alt(<<<<Lit("yes")>>, <<Lit("no")>>>>)>>)>>,
           <<Lit("suspended"), Lazy(0, Inf, <<NotIn({})>>), Lit("revoked"), Lazy(0, Inf, <<NotIn({})>>), Grp(1, <<Alt(<<<<Lit("yes")>>, <<Lit("no")>>>>)>>)>> >>,
        FALSE, "compliance"),
    FieldMapping("suspension_details", "text",
        << <<Lit("suspension"), Lazy(0, Inf, <<NotIn({})>>), Lit("detail"), Lazy(0, Inf, <<NotIn({})>>), Grp(1, <<Rep(1, Inf, <<NotIn({"\n", "\r"})>>)>>)>>,
           <<Lit("revocation"), Lazy(0, Inf, <<NotIn({})>>), Lit("detail"), Lazy(0, Inf, <<NotIn({})>>), Grp(1, <<Rep(1, Inf, <<NotIn({"\n", "\r"})>>)>>)>> >>,
        FALSE, "compliance"),
    FieldMapping("denied_license", "boolean",
        << <<Lit("denied a license"), Lazy(0, Inf, <<NotIn({})>>), Rep(0, Inf, <<In(Space)>>), Grp(1, <<Alt(<<<<Lit("yes")>>, <<Lit("no")>>>>)>>)>>,
           <<Lit("denied"), Lazy(0, Inf, <<NotIn({})>>), Lit("license"), Lazy(0, Inf, <<NotIn({})>>), Grp(1, <<Alt(<<<<Lit("yes")>>, <<Lit("no")>>>>)>>)>> >>,
        FALSE, "compliance"),
    FieldMapping("denial_details", "text",
        << <<Lit("denial"), Lazy(0, Inf, <<NotIn({})>>), Lit("detail"), Lazy(0, Inf, <<NotIn({})>>), Grp(1, <<Rep(1, Inf, <<NotIn({"\n", "\r"})>>)>>)>>,
           <<Lit("denied"), Lazy(0, Inf, <<NotIn({})>>), Lit("detail"), Lazy(0, Inf, <<NotIn({})>>), Grp(1, <<Rep(1, Inf, <<NotIn({"\n", "\r"})>>)>>)>> >>,
        FALSE, "compliance"),
    FieldMapping("failed_drug_test", "boolean",
        << <<Lit("tested positive"), Lazy(0, Inf, <<NotIn({})>>), Lit("refused to test"), Lazy(0, Inf, <<NotIn({})>>), Rep(0, Inf, <<In(Space)>>), Grp(1, <<Alt(<<<<Lit("yes")>>, <<Lit("no")>>>>)>>)>>,
           <<Lit("drug"), Lazy(0, Inf, <<NotIn({})>>), Lit("test"), Lazy(0, Inf, <<NotIn({})>>), Grp(1, <<Alt(<<<<Lit("yes")>>, <<Lit("no")>>>>)>>)>> >>,
        FALSE, "compliance"),
    FieldMapping("drug_test_details", "text",
        << <<Lit("drug"), Lazy(0, Inf, <<NotIn({})>>), Lit("test"), Lazy(0, Inf, <<NotIn({})>>), Lit("detail"), Lazy(0, Inf, <<NotIn({})>>), Grp(1, <<Rep(1, Inf, <<NotIn({"\n", "\r"})>>)>>)>>,
           <<Lit("positive"), Lazy(0, Inf, <<NotIn({})>>), Lit("detail"), Lazy(0, Inf, <<NotIn({})>>), Grp(1, <<Rep(1, Inf, <<NotIn({"\n", "\r"})>>)>>)>> >>,
        FALSE, "compliance"),
    FieldMapping("last_positive_date", "date",
        << <<Lit("date of last positive"), Lazy(0, Inf, <<NotIn({})>>), Grp(1, <<Rep(1, 2, <<In(Digit)>>), Lit("-"), Rep(1, 2, <<In(Digit)>>), Lit("-"), Rep(4, 4, <<In(Digit)>>)>>)>>,
           <<Lit("last positive"), Lazy(0, Inf, <<NotIn({})>>), Grp(1, <<Rep(1, 2, <<In(Digit)>>), In({"-", "/"}), Rep(1, 2, <<In(Digit)>>), In({"-", "/"}), Rep(4, 4, <<In(Digit)>>)>>)>> >>,
        FALSE, "compliance"),
    FieldMapping("convicted_serious_offenses", "boolean",
        << <<Lit("convicted of any of the following offenses"), Lazy(0, Inf, <<NotIn({})>>), Rep(0, Inf, <<In(Space)>>), Grp(1, <<Alt(<<<<Lit("yes")>>, <<Lit("no")>>>>)>>)>>,
           <<Lit("serious"), Lazy(0, Inf, <<NotIn({})>>), Lit("offenses"), Lazy(0, Inf, <<NotIn({})>>), Grp(1, <<Alt(<<<<Lit("yes")>>, <<Lit("no")>>>>)>>)>> >>,
        FALSE, "compliance")
>>

ACCIDENT_FIELDS == <<
    FieldMapping("accidents_last_5_years", "boolean",
        << <<Lit("involved in any accidents"), Lazy(0, Inf, <<NotIn({})>>), Lit("last 5 years"), Lazy(0, Inf, <<NotIn({})>>), Rep(0, Inf, <<In(Space)>>), Grp(1, <<Alt(<<<<Lit("yes")>>, <<Lit("no")>>>>)>>)>>,
           <<Lit("accidents"), Lazy(0, Inf, <<NotIn({})>>), Lit("5 years"), Lazy(0, Inf, <<NotIn({})>>), Grp(1, <<Alt(<<<<Lit("yes")>>, <<Lit("no")>>>>)>>)>> >>,
        FALSE, "accidents"),
    FieldMapping("accident_type", "text",
        << <<Lit("type of accident"), Lazy(0, Inf, <<NotIn({})>>), Grp(1, <<Rep(1, Inf, <<NotIn({"\n", "\r"})>>)>>)>>,
           <<Lit("accident"), Lazy(0, Inf, <<NotIn({})>>), Lit("type"), Rep(0, Inf, <<In((Space \cup {":"}))>>), Grp(1, <<Rep(1, Inf, <<NotIn({"\n", "\r"})>>)>>)>> >>,
        FALSE, "accidents"),
    FieldMapping("accident_date", "date",
        << <<Lit("date of accident"), Lazy(0, Inf, <<NotIn({})>>), Grp(1, <<Rep(1, 2, <<In(Digit)>>), Lit("-"), Rep(4, 4, <<In(Digit)>>)>>)>>,
           <<Lit("accident"), Lazy(0, Inf, <<NotIn({})>>), Lit("date"), Rep(0, Inf, <<In((Space \cup {":"}))>>), Grp(1, <<Rep(1, 2, <<In(Digit)>>), In({"-", "/"}), Rep(4, 4, <<In(Digit)>>)>>)>> >>,
        FALSE, "accidents"),
    FieldMapping("hazmat_accident", "boolean",
        << <<Lit("hazmat accident"), Lazy(0, Inf, <<NotIn({})>>), Rep(0, Inf, <<In(Space)>>), Grp(1, <<Alt(<<<<Lit("yes")>>, <<Lit("no")>>>>)>>)>>,
           <<Lit("hazmat"), Lazy(0, Inf, <<NotIn({})>>), Lit("accident"), Lazy(0, Inf, <<NotIn({})>>), Grp(1, <<Alt(<<<<Lit("yes")>>, <<Lit("no")>>>>)>>)>> >>,
        FALSE, "accidents"),
    FieldMapping("vehicle_towed", "boolean",
        << <<Lit("any vehicle towed away?"), Rep(0, Inf, <<In(Space)>>), Grp(1, <<Alt(<<<<Lit("yes")>>, <<Lit("no")>>>>)>>)>>,
           <<Lit("towed"), Lazy(0, Inf, <<NotIn({})>>), Grp(1, <<Alt(<<<<Lit("yes")>>, <<Lit("no")>>>>)>>)>> >>,
        FALSE, "accidents"),
    FieldMapping("accident_city", "text",
        << <<Lit("city"), Rep(1, Inf, <<In(Space)>>), Grp(1, <<Rep(1, Inf, <<NotIn({"\n", "\r"})>>)>>)>>,
           <<Lit("accident"), Lazy(0, Inf, <<NotIn({})>>), Lit("city"), Rep(0, Inf, <<In((Space \cup {":"}))>>), Grp(1, <<Rep(1, Inf, <<NotIn({"\n", "\r"})>>)>>)>> >>,
        FALSE, "accidents"),
    FieldMapping("accident_state", "text",
        << <<Lit("state/province"), Rep(1, Inf, <<In(Space)>>), Grp(1, <<Rep(2, 2, <<In(Alpha)>>)>>)>>,
           <<Lit("accident"), Lazy(0, Inf, <<NotIn({})>>), Lit("state"), Rep(0, Inf, <<In((Space \cup {":"}))>>), Grp(1, <<Rep(2, 2, <<In(Alpha)>>)>>)>> >>,
        FALSE, "accidents"),
    FieldMapping("commercial_vehicle_accident", "boolean",
        << <<Lit("were you in a commercial vehicle?"), Rep(0, Inf, <<In(Space)>>), Grp(1, <<Alt(<<<<Lit("yes")>>, <<Lit("no")>>>>)>>)>>,
           <<Lit("commercial vehicle"), Lazy(0, Inf, <<NotIn({})>>), Grp(1, <<Alt(<<<<Lit("yes")>>, <<Lit("no")>>>>)>>)>> >>,
        FALSE, "accidents"),
    FieldMapping("dot_recordable_accident", "boolean",
        << <<Lit("department of transportation recordable accident?"), Rep(0, Inf, <<In(Space)>>), Grp(1, <<Alt(<<<<Lit("yes")>>, <<Lit("no")>>>>)>>)>>,
           <<Lit("dot"), Lazy(0, Inf, <<NotIn({})>>), Lit("recordable"), Lazy(0, Inf, <<NotIn({})>>), Grp(1, <<Alt(<<<<Lit("yes")>>, <<Lit("no")>>>>)>>)>> >>,
        FALSE, "accidents"),
    FieldMapping("at_fault", "boolean",
        << <<Lit("were you at fault?"), Rep(0, Inf, <<In(Space)>>), Grp(1, <<Alt(<<<<Lit("yes")>>, <<Lit("no")>>>>)>>)>>,
           <<Lit("at fault"), Lazy(0, Inf, <<NotIn({})>>), Grp(1, <<Alt(<<<<Lit("yes")>>, <<Lit("no")>>>>)>>)>> >>,
        FALSE, "accidents"),
    FieldMapping("ticketed", "boolean",
        << <<Lit("were you ticketed?"), Rep(0, Inf, <<In(Space)>>), Grp(1, <<Alt(<<<<Lit("yes")>>, <<Lit("no")>>>>)>>)>>,
           <<Lit("ticketed"), Lazy(0, Inf, <<NotIn({})>>), Grp(1, <<Alt(<<<<Lit("yes")>>, <<Lit("no")>>>>)>>)>> >>,
        FALSE, "accidents"),
    FieldMapping("accident_description", "text",
        << <<Lit("description"), Rep(1, Inf, <<In(Space)>>), Grp(1, <<Rep(1, Inf, <<NotIn({"\n", "\r"})>>), Rep(0, Inf, <<Lit("\n"), Rep(1, Inf, <<NotIn({"\n", "\r"})>>)>>)>>)>>,
           <<Lit("accident"), Lazy(0, Inf, <<NotIn({})>>), Lit("description"), Rep(0, Inf, <<In((Space \cup {":"}))>>), Grp(1, <<Rep(1, Inf, <<NotIn({"\n", "\r"})>>)>>)>> >>,
        FALSE, "accidents")
>>

TRAFFIC_FIELDS == <<
    FieldMapping("moving_violations_3_years", "boolean",
        << <<Lit("moving violations"), Lazy(0, Inf, <<NotIn({})>>), Lit("past 3 years"), Lazy(0, Inf, <<NotIn({})>>), Rep(0, Inf, <<In(Space)>>), Grp(1, <<Alt(<<<<Lit("yes")>>, <<Lit("no")>>>>)>>)>>,
           <<Lit("traffic"), Lazy(0, Inf, <<NotIn({})>>), Lit("violations"), Lazy(0, Inf, <<NotIn({})>>), Grp(1, <<Alt(<<<<Lit("yes")>>, <<Lit("no")>>>>)>>)>> >>,
        FALSE, "traffic"),
    FieldMapping("violation_details", "text",
        << <<Lit("violations"), Lazy(0, Inf, <<NotIn({})>>), Lit("detail"), Lazy(0, Inf, <<NotIn({})>>), Grp(1, <<Rep(1, Inf, <<NotIn({"\n", "\r"})>>)>>)>>,
           <<Lit("traffic"), Lazy(0, Inf, <<NotIn({})>>), Lit("detail"), Lazy(0, Inf, <<NotIn({})>>), Grp(1, <<Rep(1, Inf, <<NotIn({"\n", "\r"})>>)>>)>> >>,
        FALSE, "traffic")
>>

CRIMINAL_FIELDS == <<
    FieldMapping("convicted_of_crime", "boolean",
        << <<Lit("have you ever been convicted of a crime?"), Rep(0, Inf, <<In(Space)>>), Grp(1, <<Alt(<<<<Lit("yes")>>, <<Lit("no")>>>>)>>)>>,
           <<Lit("convicted"), Lazy(0, Inf, <<NotIn({})>>), Lit("crime"), Lazy(0, Inf, <<NotIn({})>>), Grp(1, <<Alt(<<<<Lit("yes")>>, <<Lit("no")>>>>)>>)>> >>,
        FALSE, "criminal"),
    FieldMapping("crime_details", "text",
        << <<Lit("convicted"), Lazy(0, Inf, <<NotIn({})>>), Lit("comment"), Rep(1, Inf, <<In(Space)>>), Grp(1, <<Rep(1, Inf, <<NotIn({"\n", "\r"})>>)>>)>>,
           <<Lit("crime"), Lazy(0, Inf, <<NotIn({})>>), Lit("comment"), Rep(0, Inf, <<In((Space \cup {":"}))>>), Grp(1, <<Rep(1, Inf, <<NotIn({"\n", "\r"})>>)>>)>> >>,
        FALSE, "criminal"),
    FieldMapping("deferred_prosecutions", "boolean",
        << <<Lit("do you have any deferred prosecutions?"), Rep(0, Inf, <<In(Space)>>), Grp(1, <<Alt(<<<<Lit("yes")>>, <<Lit("no")>>>>)>>)>>,
           <<Lit("deferred"), Lazy(0, Inf, <<NotIn({})>>), Lit("prosecutions"), Lazy(0, Inf, <<NotIn({})>>), Grp(1, <<Alt(<<<<Lit("yes")>>, <<Lit("no")>>>>)>>)>> >>,
        FALSE, "criminal"),
    FieldMapping("charges_pending", "boolean",
        << <<Lit("do you have criminal charges pending?"), Rep(0, Inf, <<In(Space)>>), Grp(1, <<Alt(<<<<Lit("yes")>>, <<Lit("no")>>>>)>>)>>,
           <<Lit("charges"), Lazy(0, Inf, <<NotIn({})>>), Lit("pending"), Lazy(0, Inf, <<NotIn({})>>), Grp(1, <<Alt(<<<<Lit("yes")>>, <<Lit("no")>>>>)>>)>> >>,
        FALSE, "criminal"),
    FieldMapping("felony_conviction", "boolean",
        << <<Lit("pled"), Lazy(0, Inf, <<NotIn({})>>), Lit("guilty"), Lazy(0, Inf, <<NotIn({})>>), Lit("convicted"), Lazy(0, Inf, <<NotIn({})>>), Lit("felony?"), Rep(0, Inf, <<In(Space)>>), Grp(1, <<Alt(<<<<Lit("yes")>>, <<Lit("no")>>>>)>>)>>,
           <<Lit("felony"), Lazy(0, Inf, <<NotIn({})>>), Grp(1, <<Alt(<<<<Lit("yes")>>, <<Lit("no")>>>>)>>)>> >>,
        FALSE, "criminal"),
    FieldMapping("felony_details", "text",
        << <<Lit("felony"), Lazy(0, Inf, <<NotIn({})>>), Lit("comment"), Rep(1, Inf, <<In(Space)>>), Grp(1, <<Rep(1, Inf, <<NotIn({"\n", "\r"})>>)>>)>>,
           <<Lit("felony"), Lazy(0, Inf, <<NotIn({})>>), Lit("comment"), Rep(0, Inf, <<In((Space \cup {":"}))>>), Grp(1, <<Rep(1, Inf, <<NotIn({"\n", "\r"})>>)>>)>> >>,
        FALSE, "criminal"),
    FieldMapping("minister_permit", "boolean",
        << <<Lit("minister's permit"), Lazy(0, Inf, <<NotIn({})>>), Lit("canada?"), Rep(0, Inf, <<In(Space)>>), Grp(1, <<Alt(<<<<Lit("yes")>>, <<Lit("no")>>>>)>>)>>,
           <<Lit("minister"), Lazy(0, Inf, <<NotIn({})>>), Lit("permit"), Lazy(0, Inf, <<NotIn({})>>), Grp(1, <<Alt(<<<<Lit("yes")>>, <<Lit("no")>>>>)>>)>> >>,
        FALSE, "criminal"),
    FieldMapping("misdemeanor_5_years", "boolean",
        << <<Lit("within the last five years"), Lazy(0, Inf, <<NotIn({})>>), Lit("misdemeanor?"), Rep(0, Inf, <<In(Space)>>), Grp(1, <<Alt(<<<<Lit("yes")>>, <<Lit("no")>>>>)>>)>>,
           <<Lit("misdemeanor"), Lazy(0, Inf, <<NotIn({})>>), Lit("5 years"), Lazy(0, Inf, <<NotIn({})>>), Grp(1, <<Alt(<<<<Lit("yes")>>, <<Lit("no")>>>>)>>)>> >>,
        FALSE, "criminal")
>>

SIGNATURE_FIELDS == <<
    FieldMapping("signature_full_name", "text",
        << <<Lit("full name"), Rep(1, Inf, <<In(Space)>>), Grp(1, <<Rep(1, Inf, <<NotIn({"\n", "\r"})>>)>>)>>,
           <<Lit("signature"), Lazy(0, Inf, <<NotIn({})>>), Lit("name"), Rep(0, Inf, <<In((Space \cup {":"}))>>), Grp(1, <<Rep(1, Inf, <<NotIn({"\n", "\r"})>>)>>)>> >>,
        FALSE, "signature"),
    FieldMapping("ip_address", "text",
        << <<Lit("ip address"), Rep(1, Inf, <<In(Space)>>), Grp(1, <<Rep(1, Inf, <<In((Digit \cup {"."}))>>)>>)>>,
           <<Lit("ip"), Rep(0, Inf, <<In((Space \cup {":"}))>>), Grp(1, <<Rep(1, Inf, <<In((Digit \cup {"."}))>>)>>)>> >>,
        FALSE, "signature"),
    FieldMapping("signature_date_time", "text",
        << <<Lit("signature date/time"), Rep(1, Inf, <<In(Space)>>), Grp(1, <<Rep(1, Inf, <<NotIn({"\n", "\r"})>>)>>)>>,
           <<Lit("signature"), Lazy(0, Inf, <<NotIn({})>>), Lit("date"), Rep(0, Inf, <<In((Space \cup {":"}))>>), Grp(1, <<Rep(1, Inf, <<NotIn({"\n", "\r"})>>)>>)>> >>,
        FALSE, "signature")
>>

FCRA_FIELDS == <<
    FieldMapping("fcra_summary_acknowledgment", "boolean",
        << <<Lit("fcra summary of rights acknowledgment"), Lazy(0, Inf, <<NotIn({})>>), Rep(0, Inf, <<In(Space)>>), Grp(1, <<Alt(<<<<Lit("yes")>>, <<Lit("no")>>>>)>>)>>,
           <<Lit("fcra"), Lazy(0, Inf, <<NotIn({})>>), Lit("acknowledgment"), Lazy(0, Inf, <<NotIn({})>>), Grp(1, <<Alt(<<<<Lit("yes")>>, <<Lit("no")>>>>)>>)>> >>,
        FALSE, "fcra"),
    FieldMapping("psp_disclosure_authorization", "boolean",
        << <<Lit("psp disclosure and authorization"), Lazy(0, Inf, <<NotIn({})>>), Rep(0, Inf, <<In(Space)>>), Grp(1, <<Alt(<<<<Lit("yes")>>, <<Lit("no")>>>>)>>)>>,
           <<Lit("psp"), Lazy(0, Inf, <<NotIn({})>>), Lit("authorization"), Lazy(0, Inf, <<NotIn({})>>), Grp(1, <<Alt(<<<<Lit("yes")>>, <<Lit("no")>>>>)>>)>> >>,
        FALSE, "fcra"),
    FieldMapping("fcra_disclosure", "boolean",
        << <<Lit("fcra disclosure"), Lazy(0, Inf, <<NotIn({})>>), Rep(0, Inf, <<In(Space)>>), Grp(1, <<Alt(<<<<Lit("yes")>>, <<Lit("no")>>>>)>>)>>,
           <<Lit("fcra"), Lazy(0, Inf, <<NotIn({})>>), Lit("disclosure"), Lazy(0, Inf, <<NotIn({})>>), Grp(1, <<Alt(<<<<Lit("yes")>>, <<Lit("no")>>>>)>>)>> >>,
        FALSE, "fcra"),
    FieldMapping("fcra_authorization", "boolean",
        << <<Lit("fcra authorization"), Lazy(0, Inf, <<NotIn({})>>), Rep(0, Inf, <<In(Space)>>), Grp(1, <<Alt(<<<<Lit("yes")>>, <<Lit("no")>>>>)>>)>>,
           <<Lit("fcra"), Lazy(0, Inf, <<NotIn({})>>), Lit("authorization"), Lazy(0, Inf, <<NotIn({})>>), Grp(1, <<Alt(<<<<Lit("yes")>>, <<Lit("no")>>>>)>>)>> >>,
        FALSE, "fcra"),
    FieldMapping("employment_verification_acknowledgment", "boolean",
        << <<Lit("employment verification acknowledgment"), Lazy(0, Inf, <<NotIn({})>>), Rep(0, Inf, <<In(Space)>>), Grp(1, <<Alt(<<<<Lit("yes")>>, <<Lit("no")>>>>)>>)>>,
           <<Lit("employment"), Lazy(0, Inf, <<NotIn({})>>), Lit("verification"), Lazy(0, Inf, <<NotIn({})>>), Grp(1, <<Alt(<<<<Lit("yes")>>, <<Lit("no")>>>>)>>)>> >>,
        FALSE, "fcra"),
    FieldMapping("clearinghouse_release", "boolean",
        << <<Lit("clearinghouse release"), Lazy(0, Inf, <<NotIn({})>>), Rep(0, Inf, <<In(Space)>>), Grp(1, <<Alt(<<<<Lit("yes")>>, <<Lit("no")>>>>)>>)>>,
           <<Lit("clearinghouse"), Lazy(0, Inf, <<NotIn({})>>), Grp(1, <<Alt(<<<<Lit("yes")>>, <<Lit("no")>>>>)>>)>> >>,
        FALSE, "fcra"),
    FieldMapping("investigative_consumer_report", "boolean",
        << <<Lit("investigative consumer report"), Lazy(0, Inf, <<NotIn({})>>), Rep(0, Inf, <<In(Space)>>), Grp(1, <<Alt(<<<<Lit("yes")>>, <<Lit("no")>>>>)>>)>>,
           <<Lit("investigative"), Lazy(0, Inf, <<NotIn({})>>), Lit("report"), Lazy(0, Inf, <<NotIn({})>>), Grp(1, <<Alt(<<<<Lit("yes")>>, <<Lit("no")>>>>)>>)>> >>,
        FALSE, "fcra")
>>

ALL_ENHANCED_FIELD_MAPPINGS ==
    PERSONAL_INFO_FIELDS \o
    COMPANY_QUESTIONS_FIELDS \o
    DRIVING_EXPERIENCE_FIELDS \o
    LICENSE_FIELDS \o
    ENDORSEMENT_FIELDS \o
    TRUCKING_SCHOOL_FIELDS \o
    FMCSR_FIELDS \o
    ACCIDENT_FIELDS \o
    TRAFFIC_FIELDS \o
    CRIMINAL_FIELDS \o
    SIGNATURE_FIELDS \o
    FCRA_FIELDS

----------------------------------------------------------------------------
\* enhanced_pdf_parser.py: value coercion.

\* "".join(c for c in s if c in cs)
RECURSIVE FilterChars(_, _)
FilterChars(s, cs) ==
    IF Len(s) = 0 THEN ""
    ELSE IF Len(s) = 1 THEN (IF s \in cs THEN s ELSE "")
    ELSE LET h == Len(s) \div 2
         IN  FilterChars(SubSeq(s, 1, h), cs) \o FilterChars(SubSeq(s, h + 1, Len(s)), cs)

\* s.startswith(p)
StartsWith(s, p) == Len(s) >= Len(p) /\ SubSeq(s, 1, Len(p)) = p

\* sub in s
Contains(s, sub) == \E i \in 1..(Len(s) - Len(sub) + 1) : SubSeq(s, i, i + Len(sub) - 1) = sub

\* s without its leading zeros, "0" if nothing is left
StripZeros(s) ==
    LET nz == {i \in 1..Len(s) : CharAt(s, i) # "0"}
    IN  IF nz = {} THEN "0" ELSE SubSeq(s, MinOf(nz), Len(s))

\* A run of decimal digits, single underscores allowed between digits: the
\* digit part of a numeric literal as int() and float() accept it.
DigitGroup(x) ==
    /\ Len(x) > 0
    /\ \A i \in 1..Len(x) : CharAt(x, i) \in Digit \cup {"_"}
    /\ CharAt(x, 1) \in Digit
    /\ CharAt(x, Len(x)) \in Digit
    /\ ~Contains(x, "__")

Unsigned(t) == IF Len(t) > 0 /\ CharAt(t, 1) \in {"+", "-"} THEN SubSeq(t, 2, Len(t)) ELSE t
Negative(t) == Len(t) > 0 /\ CharAt(t, 1) = "-"

\* The longest decimal numeral int() converts, in digits
\* (sys.get_int_max_str_digits() as the interpreter starts).
int_max_str_digits == 4300

\* int(s) succeeds (otherwise it raises ValueError): s is a numeral, of no
\* more digits than int() converts.
IntOk(s) ==
    With(Unsigned(NumStrip(s)), LAMBDA numeral :
        /\ DigitGroup(numeral)
        /\ Len(FilterChars(numeral, Digit)) <= int_max_str_digits)

\* int(s), as its repr
IntOf(s) ==
    LET t == NumStrip(s)
        d == StripZeros(FilterChars(Unsigned(t), Digit))
    IN  PyInt(IF Negative(t) /\ d # "0" THEN "-" \o d ELSE d)

\* The parts of a float literal: mantissa before an "e", exponent after it.
ExpAt(b) == {i \in 1..Len(b) : CharAt(b, i) = "e"}
Mantissa(b) == IF ExpAt(b) = {} THEN b ELSE SubSeq(b, 1, MinOf(ExpAt(b)) - 1)
Exponent(b) == IF ExpAt(b) = {} THEN "" ELSE SubSeq(b, MinOf(ExpAt(b)) + 1, Len(b))
DotAt(m) == {i \in 1..Len(m) : CharAt(m, i) = "."}
IntPart(m) == IF DotAt(m) = {} THEN m ELSE SubSeq(m, 1, MinOf(DotAt(m)) - 1)
FracPart(m) == IF DotAt(m) = {} THEN "" ELSE SubSeq(m, MinOf(DotAt(m)) + 1, Len(m))

\* float(s) succeeds (otherwise it raises ValueError)
FloatOk(s) ==
    LET b == Unsigned(Lower(NumStrip(s)))
        m == Mantissa(b)
    IN  \/ b \in {"inf", "infinity", "nan"}
        \/ /\ Cardinality(ExpAt(b)) <= 1
           /\ ExpAt(b) # {} => DigitGroup(Unsigned(Exponent(b)))
           /\ Cardinality(DotAt(m)) <= 1
           /\ IntPart(m) # "" \/ FracPart(m) # ""
           /\ IntPart(m) # "" => DigitGroup(IntPart(m))
           /\ FracPart(m) # "" => DigitGroup(FracPart(m))

\* s without its trailing zeros, "0" if nothing is left
StripTrailingZeros(s) ==
    LET nz == {i \in 1..Len(s) : CharAt(s, i) # "0"}
    IN  IF nz = {} THEN "0" ELSE SubSeq(s, 1, MaxOf(nz))

\* The value of a short digit string, and a string of n zeros.
DigitValue(c) == CHOOSE n \in 0..9 : CharAt("0123456789", n + 1) = c
RECURSIVE ToNat(_)
ToNat(d) == IF d = "" THEN 0 ELSE 10 * ToNat(SubSeq(d, 1, Len(d) - 1)) + DigitValue(CharAt(d, Len(d)))
RECURSIVE Zeros(_)
Zeros(n) ==
    IF n <= 0 THEN "" ELSE IF n = 1 THEN "0" ELSE Zeros(n \div 2) \o Zeros(n - n \div 2)

----------------------------------------------------------------------------
(* Natural numbers of any size, for the arithmetic of float(): a number is *)
(* the sequence of its digits to the base 1000, lowest first, with no zero *)
(* at the top; zero is the empty sequence.                                 *)

Base == 1000
\* The sequence a with every element worked out.
Whole(a) == SubSeq(a, 1, Len(a))
Limb(a, i) == IF i >= 1 /\ i <= Len(a) THEN a[i] ELSE 0
Top(a) ==
    IF \A i \in 1..Len(a) : a[i] = 0 THEN 0
    ELSE CHOOSE i \in 1..Len(a) : a[i] # 0 /\ \A j \in (i + 1)..Len(a) : a[j] = 0
Trim(a) == Given(Whole(a), LAMBDA w : SubSeq(w, 1, Top(w)))
Big(n) == Trim(<<n % Base, (n \div Base) % Base, (n \div (Base * Base)) % Base, n \div (Base * Base * Base)>>)

\* -1, 0 or 1 as a is below, equal to or above b.
Compare(a, b) ==
    IF Len(a) # Len(b) THEN (IF Len(a) < Len(b) THEN -1 ELSE 1)
    ELSE IF a = b THEN 0
    ELSE IF \E i \in 1..Len(a) : a[i] < b[i] /\ \A j \in (i + 1)..Len(a) : a[j] = b[j]
         THEN -1 ELSE 1

\* Whether a carry leaves position i of s: one arises there, or one passes
\* through there from the nearest position below where one arises.
CarryOut(s, i) ==
    s[i] >= Base
    \/ (s[i] = Base - 1
        /\ \E j \in 1..(i - 1) : s[j] >= Base /\ \A k \in (j + 1)..(i - 1) : s[k] = Base - 1)

\* The number whose digit at i is s[i], each s[i] being below 2 * Base.
Carried(s) ==
    Trim([i \in 1..(Len(s) + 1) |->
             (Limb(s, i) + (IF i > 1 /\ CarryOut(s, i - 1) THEN 1 ELSE 0)) % Base])

Plus(a, b) ==
    Carried(Whole([i \in 1..(IF Len(a) > Len(b) THEN Len(a) ELSE Len(b)) |->
                      Limb(a, i) + Limb(b, i)]))

\* Whether position i of the differences d borrows from the one above.
BorrowOut(d, i) ==
    d[i] < 0
    \/ (d[i] = 0 /\ \E j \in 1..(i - 1) : d[j] < 0 /\ \A k \in (j + 1)..(i - 1) : d[k] = 0)

Borrowed(d) ==
    Trim([i \in 1..Len(d) |->
             (d[i] - (IF i > 1 /\ BorrowOut(d, i - 1) THEN 1 ELSE 0) + Base) % Base])

\* a - b, for a at least b
Minus(a, b) == Borrowed(Whole([i \in 1..Len(a) |-> a[i] - Limb(b, i)]))

\* The sum of the products of the digits of a and b that meet at position k,
\* over the digits lo..hi of a.
RECURSIVE Column(_, _, _, _, _)
Column(a, b, k, lo, hi) ==
    IF lo > hi THEN 0
    ELSE IF lo = hi THEN a[lo] * b[k + 1 - lo]
    ELSE Column(a, b, k, lo, (lo + hi) \div 2) + Column(a, b, k, (lo + hi) \div 2 + 1, hi)

\* The three digits of each column sum added in their places, which gives
\* sums below 3 * Base, and what they hand to the next place moved there.
Folded(c, k) ==
    (Limb(c, k) % Base) + ((Limb(c, k - 1) \div Base) % Base)
        + (Limb(c, k - 2) \div (Base * Base))
Spread(c) ==
    Carried(Whole([k \in 1..(Len(c) + 3) |->
                      (Folded(c, k) % Base) + (Folded(c, k - 1) \div Base)]))

\* a * b
Times(a, b) ==
    IF a = <<>> \/ b = <<>> THEN <<>>
    ELSE Spread(Whole([k \in 1..(Len(a) + Len(b) - 1) |->
                          Column(a, b, k, IF k > Len(b) THEN k - Len(b) + 1 ELSE 1,
                                 IF k < Len(a) THEN k ELSE Len(a))]))

RECURSIVE Power(_, _)
Power(a, k) ==
    IF k = 0 THEN <<1>>
    ELSE IF k = 1 THEN a
    ELSE Given(Power(a, k \div 2), LAMBDA h :
             IF k % 2 = 0 THEN Times(h, h) ELSE Times(Times(h, h), a))

\* 2^k by powers of 2^30 and 5^k by powers of 5^13, the largest an integer
\* of the model holds.
Pow2(k) == IF k <= 0 THEN <<1>> ELSE Times(Power(Big(2^30), k \div 30), Big(2^(k % 30)))
Pow5(k) == IF k <= 0 THEN <<1>> ELSE Times(Power(Big(5^13), k \div 13), Big(5^(k % 13)))
\* 10^k: k \div 3 zero digits under 1, 10 or 100
Pow10(k) ==
    IF k <= 0 THEN <<1>>
    ELSE Whole([i \in 1..(k \div 3 + 1) |->
                   IF i <= k \div 3 THEN 0
                   ELSE IF k % 3 = 0 THEN 1 ELSE IF k % 3 = 1 THEN 10 ELSE 100])

\* The number a digit string writes, and the digits of a number.
FromDigits(d) ==
    Given(Zeros((3 - (Len(d) % 3)) % 3) \o d, LAMBDA padded :
        Trim([i \in 1..(Len(padded) \div 3) |->
                 ToNat(SubSeq(padded, Len(padded) - 3 * i + 1, Len(padded) - 3 * i + 3))]))

ThreeDigits(n) == IntStr(n \div 100) \o IntStr((n \div 10) % 10) \o IntStr(n % 10)
RECURSIVE LimbDigits(_, _, _)
LimbDigits(a, lo, hi) ==
    IF lo > hi THEN ""
    ELSE IF lo = hi THEN ThreeDigits(a[lo])
    ELSE LimbDigits(a, (lo + hi) \div 2 + 1, hi) \o LimbDigits(a, lo, (lo + hi) \div 2)
ToDigits(a) == StripZeros(LimbDigits(a, 1, Len(a)))

\* b with i zero digits put under it: b * Base^i
Shifted(b, i) == Whole([k \in 1..(Len(b) + i) |-> IF k <= i THEN 0 ELSE b[k - i]])

\* The digits of a at o, o + 1 and o + 2 as one integer.
Leading(a, o) == Limb(a, o) + Base * Limb(a, o + 1) + Base * Base * Limb(a, o + 2)
Largest(S) == CHOOSE d \in S : \A e \in S : e <= d
Smallest(S) == CHOOSE d \in S : \A e \in S : d <= e

\* The largest d with d * b at most r, for r below Base * b: the quotient of
\* the leading digits of r and b (the two of b from o) bounds it from both
\* sides to within a few candidates.
Candidates(r, b, o) ==
    (Leading(r, o) \div (Leading(b, o) + 1))
        ..(IF (Leading(r, o) + 1) \div Leading(b, o) < Base
           THEN (Leading(r, o) + 1) \div Leading(b, o) ELSE Base - 1)
QuotientDigit(r, b) ==
    Largest({d \in Candidates(r, b, IF Len(b) > 1 THEN Len(b) - 1 ELSE 1) :
                Compare(Times(Big(d), b), r) <= 0})

\* One step of the long division: the digit and what is left of r.
DivideStep(r, b) ==
    Given(QuotientDigit(r, b), LAMBDA d : [d |-> d, r |-> Minus(r, Times(Big(d), b))])

\* The quotient q and the remainder r of r by b, digit by digit from
\* position i + 1 down, for r below b * Base^(i + 1); q holds the digits
\* found so far.
RECURSIVE Divide(_, _, _, _)
Divide(r, b, i, q) ==
    IF i < 0 THEN [q |-> Trim(q), r |-> r]
    ELSE Given(DivideStep(r, Shifted(b, i)), LAMBDA s :
             Divide(s.r, b, i - 1, <<s.d>> \o q))

\* a \div b for a quotient of at most n digits to the base 1000.
Quotient(a, b, n) == Divide(a, b, n - 1, <<>>).q

Odd(a) == a # <<>> /\ a[1] % 2 = 1

\* Whether x is below half of gap, or at half of it when even says a tie
\* counts.
WithinHalf(x, gap, even) ==
    IF even THEN Compare(Times(<<2>>, x), gap) <= 0 ELSE Compare(Times(<<2>>, x), gap) < 0

\* a / b rounded to the nearest whole number, a tie to the even one.
NearestWhole(a, b, n) ==
    Given(Divide(a, b, n - 1, <<>>), LAMBDA s :
        IF WithinHalf(s.r, b, ~Odd(s.q)) THEN s.q ELSE Plus(s.q, <<1>>))

----------------------------------------------------------------------------
(* The doubles: m * 2^e with m below 2^53 and e from -1074 to 971, m at    *)
(* least 2^52 unless e is -1074; zero and the infinity beside them.        *)

Zero == [kind |-> "zero", m |-> <<>>, e |-> 0]
Infinity == [kind |-> "inf", m |-> <<>>, e |-> 0]
Finite(m, e) == [kind |-> "finite", m |-> m, e |-> e]
TwoTo52 == <<496, 370, 627, 599, 503, 4>>
TwoTo53 == <<992, 740, 254, 199, 7, 9>>

\* floor(log2(n / d)), which lies at most fourteen above k.
BinaryOrder(n, d, k) ==
    Smallest({j \in k..(k + 14) :
                 Compare(Times(n, Pow2(-(j + 1))), Times(d, Pow2(j + 1))) < 0})

\* The double of mantissa m at exponent e, m as the rounding left it.
Rounded(m, e) ==
    IF m = <<>> THEN Zero
    ELSE IF m = TwoTo53 THEN (IF e + 1 > 971 THEN Infinity ELSE Finite(TwoTo52, e + 1))
    ELSE IF e > 971 THEN Infinity
    ELSE Finite(m, e)

\* The double nearest to n / d at the exponent e.
NearestAt(n, d, e) ==
    Given(<<Times(n, Pow2(-e)), Times(d, Pow2(e))>>, LAMBDA scaled :
        Rounded(NearestWhole(scaled[1], scaled[2], 6), e))

\* The double nearest to n / d (n above zero), a tie to the even one;
\* digits is the number of decimal digits before the point of n / d, or the
\* negated number of zeros after it, less zero or one.
NearestDouble(n, d, digits) ==
    Given(BinaryOrder(n, d, ((digits - 2) * 3322) \div 1000 - 2), LAMBDA k :
        NearestAt(n, d, IF k - 52 < -1074 THEN -1074 ELSE k - 52))

\* The double nearest to digits * 10^exp10, digits a string with no zero in
\* front that is not "0".
DoubleOf(digits, exp10) ==
    IF Len(digits) + exp10 > 310 THEN Infinity
    ELSE IF Len(digits) + exp10 < -324 THEN Zero
    ELSE Given(<<Times(FromDigits(digits), Pow10(exp10)), Pow10(-exp10)>>, LAMBDA nd :
             NearestDouble(nd[1], nd[2], Len(digits) + exp10))

\* The double nearest to a / b, for whole numbers a and b above zero.
DoubleQuotient(a, b) ==
    Given(<<Big(a), Big(b)>>, LAMBDA nd :
        NearestDouble(nd[1], nd[2], Len(IntStr(a)) - Len(IntStr(b))))

\* The double x as a quotient of whole numbers, and the double nearest to
\* x * c for a whole number c above zero (digits as for NearestDouble).
Numerator(x) == IF x.e >= 0 THEN Times(x.m, Pow2(x.e)) ELSE x.m
Denominator(x) == IF x.e >= 0 THEN <<1>> ELSE Pow2(-x.e)
DoubleTimes(x, c, digits) ==
    IF x.kind # "finite" THEN x
    ELSE Given(<<Times(Numerator(x), Big(c)), Denominator(x)>>, LAMBDA nd :
             NearestDouble(nd[1], nd[2], digits))

\* The whole number a, below Base^3, as an integer.
Small(a) == Limb(a, 1) + Base * Limb(a, 2) + Base * Base * Limb(a, 3)

\* The digit string d plus one in its last place.
Successor(d) ==
    IF \A i \in 1..Len(d) : CharAt(d, i) = "9" THEN "1" \o Zeros(Len(d))
    ELSE Given(CHOOSE i \in 1..Len(d) :
                   CharAt(d, i) # "9" /\ \A j \in (i + 1)..Len(d) : CharAt(d, j) = "9",
               LAMBDA i :
                   SubSeq(d, 1, i - 1) \o IntStr(ToNat(CharAt(d, i)) + 1) \o Zeros(Len(d) - i))

\* The shortest digit string that reads back as the double x, and of those
\* the nearest to x: digits and the place of the point before them (the
\* value is 0.digits * 10^point).  all is the whole expansion of x in units
\* of 10^unit10, gap the distance to the next double in those units.  The
\* first n digits of all, as they are (down) or with one added in the last
\* place (up), read back as x when they lie within half a gap of it; below
\* a power of two the gap on the lower side is half as wide (narrow).
RoundingOf(below, above, gap, even, narrow) ==
    [down |-> IF narrow THEN Compare(Times(<<4>>, below), gap) <= 0
              ELSE WithinHalf(below, gap, even),
     up |-> WithinHalf(above, gap, even),
     nearer |-> Compare(below, above)]
Rounding(all, gap, even, narrow, n) ==
    Given(FromDigits(SubSeq(all, n + 1, Len(all))), LAMBDA below :
        RoundingOf(below, Minus(Pow10(Len(all) - n), below), gap, even, narrow))

SeventeenDigits == 17

\* The digits kept at the first length n that reads back.
ShortestAt(all, r, n) ==
    IF r[n].down /\ (~r[n].up \/ r[n].nearer < 0
                     \/ (r[n].nearer = 0 /\ ToNat(CharAt(all, n)) % 2 = 0))
    THEN [digits |-> SubSeq(all, 1, n), carry |-> 0]
    ELSE [digits |-> Successor(SubSeq(all, 1, n)),
          carry |-> Len(Successor(SubSeq(all, 1, n))) - n]

ShortestFrom(all, gap, even, narrow) ==
    Given(Whole([n \in 1..(IF Len(all) < SeventeenDigits THEN Len(all) ELSE SeventeenDigits) |->
                    IF n = Len(all) THEN [down |-> TRUE, up |-> FALSE, nearer |-> -1]
                    ELSE Rounding(all, gap, even, narrow, n)]),
          LAMBDA r :
              ShortestAt(all, r, CHOOSE n \in DOMAIN r :
                                    (r[n].down \/ r[n].up)
                                    /\ \A m \in 1..(n - 1) : ~r[m].down /\ ~r[m].up))

\* The digits of the double m * 2^e whose expansion in units of 10^e (or of
\* 1 for e from zero on) is all, the gap between doubles being unit there.
ShortestIn(x, unit, all) ==
    Given(ShortestFrom(all, unit, ~Odd(x.m), x.m = TwoTo52 /\ x.e > -1074), LAMBDA s :
        [digits |-> StripTrailingZeros(s.digits),
         point |-> Len(all) + (IF x.e >= 0 THEN 0 ELSE x.e) + s.carry])

Shortest(x) ==
    Given(IF x.e >= 0 THEN Pow2(x.e) ELSE Pow5(-x.e), LAMBDA unit :
        ShortestIn(x, unit, ToDigits(Times(x.m, unit))))

\* float.__repr__ of the number 0.digits * 10^point: positional for a point
\* from -3 to 16, with an exponent of two digits at least otherwise.
ReprOfDigits(digits, point) ==
    IF point > 16 \/ point < -3
    THEN SubSeq(digits, 1, 1)
             \o (IF Len(digits) > 1 THEN "." \o SubSeq(digits, 2, Len(digits)) ELSE "")
             \o "e" \o (IF point - 1 < 0 THEN "-" ELSE "+")
             \o TwoDigits(IF point - 1 < 0 THEN 1 - point ELSE point - 1)
    ELSE IF point <= 0 THEN "0." \o Zeros(-point) \o digits
    ELSE IF point >= Len(digits) THEN digits \o Zeros(point - Len(digits)) \o ".0"
    ELSE SubSeq(digits, 1, point) \o "." \o SubSeq(digits, point + 1, Len(digits))

\* repr of a double
DoubleRepr(x) ==
    IF x.kind = "zero" THEN "0.0"
    ELSE IF x.kind = "inf" THEN "inf"
    ELSE Given(Shortest(x), LAMBDA s : ReprOfDigits(s.digits, s.point))

\* The exponent a literal writes after its "e", kept within what matters.
ExponentValue(ex) ==
    Given(StripZeros(FilterChars(ex, Digit)), LAMBDA d :
        Given(IF Len(d) > 4 THEN 9999 ELSE ToNat(d), LAMBDA n :
            IF Negative(ex) THEN -n ELSE n))

\* repr(float(literal)) for the literal ip.fp with exponent ex ("" for
\* none).  A literal of at most 15 significant digits well inside the range
\* of the doubles reads back as its own digits; any other is taken to the
\* nearest double and that double printed.
FloatRepr(sign, ip, fp, ex) ==
    Given(StripZeros(ip \o fp), LAMBDA lead :
        IF lead = "0" THEN sign \o "0.0"
        ELSE Given(StripTrailingZeros(lead), LAMBDA digits :
             Given(ExponentValue(ex) - Len(fp) + (Len(lead) - Len(digits)), LAMBDA exp10 :
                 IF Len(digits) <= 15 /\ Len(digits) + exp10 > -300 /\ Len(digits) + exp10 < 300
                 THEN sign \o ReprOfDigits(digits, Len(digits) + exp10)
                 ELSE sign \o DoubleRepr(DoubleOf(digits, exp10)))))

FloatOfUnsigned(sign, b) ==
    IF b \in {"inf", "infinity"} THEN PyFloat(sign \o "inf")
    ELSE IF b = "nan" THEN PyFloat("nan")
    ELSE PyFloat(FloatRepr(sign,
                           FilterChars(IntPart(Mantissa(b)), Digit),
                           FilterChars(FracPart(Mantissa(b)), Digit),
                           Exponent(b)))

FloatOf(s) ==
    With(Lower(NumStrip(s)), LAMBDA t :
        FloatOfUnsigned(IF Negative(t) THEN "-" ELSE "", Unsigned(t)))

\* The date forms of _convert_field_value, tried in this order.
date_patterns == <<
    <<Grp(1, <<Rep(1, 2, <<In(Digit)>>)>>), Lit("-"), Grp(2, <<Rep(1, 2, <<In(Digit)>>)>>), Lit("-"), Grp(3, <<Rep(4, 4, <<In(Digit)>>)>>)>>,
    <<Grp(1, <<Rep(1, 2, <<In(Digit)>>)>>), Lit("/"), Grp(2, <<Rep(1, 2, <<In(Digit)>>)>>), Lit("/"), Grp(3, <<Rep(4, 4, <<In(Digit)>>)>>)>>,
    <<Grp(1, <<Rep(4, 4, <<In(Digit)>>)>>), Lit("-"), Grp(2, <<Rep(1, 2, <<In(Digit)>>)>>), Lit("-"), Grp(3, <<Rep(1, 2, <<In(Digit)>>)>>)>> >>

\* The body of the loop over date_patterns, from pattern i on: the first form
\* found anywhere in the value decides the result.
RECURSIVE ConvertDate(_, _)
ConvertDate(raw, i) ==
    IF i > Len(date_patterns) THEN PyStr(raw)
    ELSE With(Search(date_patterns[i], raw, FALSE), LAMBDA m :
             IF m.start = 0 THEN ConvertDate(raw, i + 1)
             ELSE IF Len(Group(raw, m, 3)) = 4
                  THEN PyStr(Group(raw, m, 3) \o "-" \o Zfill2(Group(raw, m, 1))
                             \o "-" \o Zfill2(Group(raw, m, 2)))
                  ELSE PyStr("20" \o Group(raw, m, 3) \o "-" \o Zfill2(Group(raw, m, 1))
                             \o "-" \o Zfill2(Group(raw, m, 2))))

\* An email pattern that is not anchored at the end of the string.
email_pattern_OpenEnded ==
    <<AtBos, Rep(1, Inf, <<In((Alpha \cup Digit \cup {".", "_", "%", "+", "-"}))>>), Lit("@"),
      Rep(1, Inf, <<In((Alpha \cup Digit \cup {".", "-"}))>>), Lit("."), Rep(2, Inf, <<In(Alpha)>>)>>

\* email_pattern of the EMAIL branch:
\* ^[a-zA-Z0-9._%+-]+@[a-zA-Z0-9.-]+\.[a-zA-Z]{2,}$
email_pattern ==
    <<AtBos, Rep(1, Inf, <<In((Alpha \cup Digit \cup {".", "_", "%", "+", "-"}))>>), Lit("@"),
      Rep(1, Inf, <<In((Alpha \cup Digit \cup {".", "-"}))>>), Lit("."), Rep(2, Inf, <<In(Alpha)>>), AtEos>>

\* None of the date forms occurs in the value.
HasNoDate(raw) == \A i \in 1..Len(date_patterns) : Search(date_patterns[i], raw, FALSE).start = 0

\* A coercion that discards a number or a date it cannot parse.
_convert_field_value_Discarding(raw, ftype) ==
    IF raw = "" \/ Lower(raw) \in {"", "none", "n/a", "not found"} THEN PyNone
    ELSE CASE ftype = "boolean" -> PyBool(Lower(raw) \in {"yes", "true", "1", "y"})
           [] ftype = "number" ->
                IF Contains(raw, ".")
                THEN (IF FloatOk(raw) THEN FloatOf(raw) ELSE PyNone)
                ELSE (IF IntOk(raw) THEN IntOf(raw) ELSE PyNone)
           [] ftype = "date" ->
                IF HasNoDate(raw) THEN PyNone ELSE ConvertDate(raw, 1)
           [] ftype = "phone" ->
                LET digits == FilterChars(raw, Digit)
                IN  IF Len(digits) = 10
                    THEN PyStr(SubSeq(digits, 1, 3) \o "-" \o SubSeq(digits, 4, 6)
                               \o "-" \o SubSeq(digits, 7, 10))
                    ELSE PyStr(raw)
           [] ftype = "email" ->
                IF Search(email_pattern, raw, FALSE).start # 0
                THEN PyStr(Lower(raw)) ELSE PyNone
           [] ftype = "ssn" ->
                LET digits == FilterChars(raw, Digit)
                IN  IF Len(digits) = 9
                    THEN PyStr(SubSeq(digits, 1, 3) \o "-" \o SubSeq(digits, 4, 5)
                               \o "-" \o SubSeq(digits, 6, 9))
                    ELSE PyStr(raw)
           [] OTHER -> PyStr(Strip(raw))

\* A coercion whose blank check compares the capture as written.
_convert_field_value_ExactBlank(raw, ftype) ==
    IF raw = "" \/ raw \in {"", "none", "n/a", "not found"} THEN PyNone
    ELSE CASE ftype = "boolean" -> PyBool(Lower(raw) \in {"yes", "true", "1", "y"})
           [] ftype = "number" ->
                IF Contains(raw, ".")
                THEN (IF FloatOk(raw) THEN FloatOf(raw) ELSE PyStr(raw))
                ELSE (IF IntOk(raw) THEN IntOf(raw) ELSE PyStr(raw))
           [] ftype = "date" -> ConvertDate(raw, 1)
           [] ftype = "phone" ->
                LET digits == FilterChars(raw, Digit)
                IN  IF Len(digits) = 10
                    THEN PyStr(SubSeq(digits, 1, 3) \o "-" \o SubSeq(digits, 4, 6)
                               \o "-" \o SubSeq(digits, 7, 10))
                    ELSE PyStr(raw)
           [] ftype = "email" ->
                IF Search(email_pattern, raw, FALSE).start # 0
                THEN PyStr(Lower(raw)) ELSE PyNone
           [] ftype = "ssn" ->
                LET digits == FilterChars(raw, Digit)
                IN  IF Len(digits) = 9
                    THEN PyStr(SubSeq(digits, 1, 3) \o "-" \o SubSeq(digits, 4, 5)
                               \o "-" \o SubSeq(digits, 6, 9))
                    ELSE PyStr(raw)
           [] OTHER -> PyStr(Strip(raw))

\* _convert_field_value: one captured string to the value of its field type.
_convert_field_value(raw, ftype) ==
    IF raw = "" \/ Lower(raw) \in {"", "none", "n/a", "not found"} THEN PyNone
    ELSE CASE ftype = "boolean" -> PyBool(Lower(raw) \in {"yes", "true", "1", "y"})
           [] ftype = "number" ->
                IF Contains(raw, ".")
                THEN (IF FloatOk(raw) THEN FloatOf(raw) ELSE PyStr(raw))
                ELSE (IF IntOk(raw) THEN IntOf(raw) ELSE PyStr(raw))
           [] ftype = "date" -> ConvertDate(raw, 1)
           [] ftype = "phone" ->
                LET digits == FilterChars(raw, Digit)
                IN  IF Len(digits) = 10
                    THEN PyStr(SubSeq(digits, 1, 3) \o "-" \o SubSeq(digits, 4, 6)
                               \o "-" \o SubSeq(digits, 7, 10))
                    ELSE PyStr(raw)
           [] ftype = "email" ->
                IF Search(email_pattern, raw, FALSE).start # 0
                THEN PyStr(Lower(raw)) ELSE PyNone
           [] ftype = "ssn" ->
                LET digits == FilterChars(raw, Digit)
                IN  IF Len(digits) = 9
                    THEN PyStr(SubSeq(digits, 1, 3) \o "-" \o SubSeq(digits, 4, 5)
                               \o "-" \o SubSeq(digits, 6, 9))
                    ELSE PyStr(raw)
           [] OTHER -> PyStr(Strip(raw))

----------------------------------------------------------------------------
\* enhanced_pdf_parser.py: field resolution.

\* The flags _extract_field_value searches with include re.IGNORECASE.
IGNORECASE == TRUE

\* The loop of _extract_field_value from pattern i on: the first pattern found
\* in the text decides the value.  A match whose group 1 did not take part
\* makes match.group(1).strip() raise, which the loop catches and steps over.
\* A resolver that lets the last pattern found in the text decide.
ExtractFrom_LastMatch(text, fm, i) ==
    LET M == {j \in i..Len(fm.patterns) : Search(fm.patterns[j], text, IGNORECASE).start # 0}
    IN  IF M = {} THEN PyNone
        ELSE _convert_field_value(
                 Strip(Group(text, Search(fm.patterns[MaxOf(M)], text, IGNORECASE), 1)),
                 fm.field_type)

\* A resolver that steps over a pattern whose capture coerces to None.
ExtractFrom_SkippingAbsent(text, fm, i) ==
    LET Coerced(j) ==
            _convert_field_value(
                Strip(Group(text, Search(fm.patterns[j], text, IGNORECASE), 1)), fm.field_type)
        M == {j \in i..Len(fm.patterns) :
                 /\ Search(fm.patterns[j], text, IGNORECASE).start # 0
                 /\ Coerced(j) # PyNone}
    IN  IF M = {} THEN PyNone ELSE Coerced(MinOf(M))

RECURSIVE ExtractFrom(_, _, _)
ExtractFrom(text, fm, i) ==
    IF i > Len(fm.patterns) THEN PyNone
    ELSE With(Search(fm.patterns[i], text, IGNORECASE), LAMBDA match :
             IF match.start = 0 THEN ExtractFrom(text, fm, i + 1)
             ELSE IF match.g[1] = <<0, 0>> THEN ExtractFrom(text, fm, i + 1)
             ELSE _convert_field_value(Strip(Group(text, match, 1)), fm.field_type))

_extract_field_value(text, fm) == ExtractFrom(text, fm, 1)

\* enhanced_field_mapping.py: catalog lookups.
FieldIndex == 1..Len(ALL_ENHANCED_FIELD_MAPPINGS)
FieldNameAt(i) == ALL_ENHANCED_FIELD_MAPPINGS[i].field_name
get_fields_by_section(section) ==
    {i \in FieldIndex : ALL_ENHANCED_FIELD_MAPPINGS[i].section = section}
get_all_sections == {ALL_ENHANCED_FIELD_MAPPINGS[i].section : i \in FieldIndex}
FieldNames == {ALL_ENHANCED_FIELD_MAPPINGS[i].field_name : i \in FieldIndex}
get_field_by_name(name) ==
    LET I == {i \in FieldIndex : ALL_ENHANCED_FIELD_MAPPINGS[i].field_name = name}
    IN  IF I = {} THEN PyNone ELSE ALL_ENHANCED_FIELD_MAPPINGS[MinOf(I)]

\* _extract_section_data: the dictionary of the section's fields whose
\* resolved value is not None, keyed by field name.
_extract_section_data(text, section) ==
    With([i \in get_fields_by_section(section) |->
             _extract_field_value(text, ALL_ENHANCED_FIELD_MAPPINGS[i])], LAMBDA val :
        With({i \in DOMAIN val : val[i] # PyNone}, LAMBDA found :
            [name \in {FieldNameAt(i) : i \in found} |->
                val[CHOOSE i \in found : FieldNameAt(i) = name]]))

----------------------------------------------------------------------------
\* enhanced_pdf_parser.py: employment and accident history.  The block
\* patterns run under re.IGNORECASE | re.MULTILINE | re.DOTALL; the
\* sub-field patterns under re.IGNORECASE alone, so their "." stops at a
\* newline.

employment_pattern ==
    <<Lit("company"), Rep(1, Inf, <<In(Space)>>), Grp(1, <<Rep(1, Inf, <<NotIn({"\n", "\r"})>>)>>), Lazy(0, Inf, <<NotIn({})>>), Ahead(<<Alt(<<<<Lit("company"), Rep(1, Inf, <<In(Space)>>), Rep(1, Inf, <<NotIn({"\n", "\r"})>>)>>, <<Lit("unemployment")>>, <<Lit("trucking school")>>, <<AtEol>>>>)>>)>>

EmploymentFields == <<
    <<"company_name", "field",
      <<Lit("company"), Rep(1, Inf, <<In(Space)>>), Grp(1, <<Rep(1, Inf, <<NotIn({"\n", "\r"})>>)>>)>>>>,
    <<"start_date", "field",
      <<Lit("start date"), Rep(1, Inf, <<In(Space)>>), Grp(1, <<Rep(1, Inf, <<NotIn({"\n", "\r"})>>)>>)>>>>,
    <<"end_date", "field",
      <<Lit("end date"), Rep(1, Inf, <<In(Space)>>), Grp(1, <<Rep(1, Inf, <<NotIn({"\n", "\r"})>>)>>)>>>>,
    <<"address", "field",
      <<Lit("address"), Rep(1, Inf, <<In(Space)>>), Grp(1, <<Rep(1, Inf, <<NotIn({"\n", "\r"})>>)>>)>>>>,
    <<"city_state_zip", "field",
      <<Lit("city, state/province zip/postal"), Rep(1, Inf, <<In(Space)>>), Grp(1, <<Rep(1, Inf, <<NotIn({"\n", "\r"})>>)>>)>>>>,
    <<"country", "field",
      <<Lit("country"), Rep(1, Inf, <<In(Space)>>), Grp(1, <<Rep(1, Inf, <<NotIn({"\n", "\r"})>>)>>)>>>>,
    <<"phone", "field",
      <<Lit("phone"), Rep(1, Inf, <<In(Space)>>), Grp(1, <<Rep(1, Inf, <<NotIn({"\n", "\r"})>>)>>)>>>>,
    <<"fax", "field",
      <<Lit("fax"), Rep(1, Inf, <<In(Space)>>), Grp(1, <<Rep(1, Inf, <<NotIn({"\n", "\r"})>>)>>)>>>>,
    <<"position_held", "field",
      <<Lit("position held"), Rep(1, Inf, <<In(Space)>>), Grp(1, <<Rep(1, Inf, <<NotIn({"\n", "\r"})>>)>>)>>>>,
    <<"reason_for_leaving", "field",
      <<Lit("reason for leaving?"), Rep(1, Inf, <<In(Space)>>), Grp(1, <<Rep(1, Inf, <<NotIn({"\n", "\r"})>>)>>)>>>>,
    <<"terminated", "boolean",
      <<Lit("were you terminated"), Lazy(0, Inf, <<NotIn({"\n"})>>), Rep(1, Inf, <<In(Space)>>), Grp(1, <<Alt(<<<<Lit("yes")>>, <<Lit("no")>>>>)>>)>>>>,
    <<"current_employer", "boolean",
      <<Lit("is this your current employer?"), Rep(1, Inf, <<In(Space)>>), Grp(1, <<Alt(<<<<Lit("yes")>>, <<Lit("no")>>>>)>>)>>>>,
    <<"may_contact", "boolean",
      <<Lit("may we contact this employer"), Lazy(0, Inf, <<NotIn({"\n"})>>), Rep(1, Inf, <<In(Space)>>), Grp(1, <<Alt(<<<<Lit("yes")>>, <<Lit("no")>>>>)>>)>>>>,
    <<"operated_cmv", "boolean",
      <<Lit("did you operate a commercial motor vehicle?"), Rep(1, Inf, <<In(Space)>>), Grp(1, <<Alt(<<<<Lit("yes")>>, <<Lit("no")>>>>)>>)>>>>,
    <<"subject_to_fmcsr", "boolean",
      <<Lit("were you subject to the federal motor carrier"), Lazy(0, Inf, <<NotIn({"\n"})>>), Rep(1, Inf, <<In(Space)>>), Grp(1, <<Alt(<<<<Lit("yes")>>, <<Lit("no")>>>>)>>)>>>>,
    <<"safety_sensitive_functions", "boolean",
      <<Lit("did you perform any safety sensitive functions"), Lazy(0, Inf, <<NotIn({"\n"})>>), Rep(1, Inf, <<In(Space)>>), Grp(1, <<Alt(<<<<Lit("yes")>>, <<Lit("no")>>>>)>>)>>>>,
    <<"areas_driven", "field",
      <<Lit("areas driven"), Rep(1, Inf, <<In(Space)>>), Grp(1, <<Rep(1, Inf, <<NotIn({"\n", "\r"})>>)>>)>>>>,
    <<"miles_driven_weekly", "field",
      <<Lit("miles driven weekly"), Rep(1, Inf, <<In(Space)>>), Grp(1, <<Rep(1, Inf, <<NotIn({"\n", "\r"})>>)>>)>>>>,
    <<"pay_range", "field",
      <<Lit("pay range"), Lazy(0, Inf, <<NotIn({"\n"})>>), Rep(1, Inf, <<In(Space)>>), Grp(1, <<Rep(1, Inf, <<NotIn({"\n", "\r"})>>)>>)>>>>,
    <<"most_common_truck", "field",
      <<Lit("most common truck driven"), Rep(1, Inf, <<In(Space)>>), Grp(1, <<Rep(1, Inf, <<NotIn({"\n", "\r"})>>)>>)>>>>,
    <<"most_common_trailer", "field",
      <<Lit("most common trailer"), Rep(1, Inf, <<In(Space)>>), Grp(1, <<Rep(1, Inf, <<NotIn({"\n", "\r"})>>)>>)>>>>,
    <<"trailer_length", "field",
      <<Lit("trailer length"), Rep(1, Inf, <<In(Space)>>), Grp(1, <<Rep(1, Inf, <<NotIn({"\n", "\r"})>>)>>)>>>> >>

unemployment_pattern ==
    <<Lit("unemployment"), Lazy(0, Inf, <<NotIn({})>>), Lit("start date"), Rep(1, Inf, <<In(Space)>>), Grp(1, <<Rep(1, Inf, <<NotIn({"\n", "\r"})>>)>>), Lazy(0, Inf, <<NotIn({})>>), Lit("end date"), Rep(1, Inf, <<In(Space)>>), Grp(2, <<Rep(1, Inf, <<NotIn({"\n", "\r"})>>)>>), Lazy(0, Inf, <<NotIn({})>>), Lit("comment"), Rep(1, Inf, <<In(Space)>>), Grp(3, <<Rep(1, Inf, <<NotIn({"\n", "\r"})>>)>>)>>

accident_pattern ==
    <<Lit("type of accident"), Lazy(0, Inf, <<NotIn({})>>), Ahead(<<Alt(<<<<Lit("type of accident")>>, <<Lit("traffic convictions")>>, <<Lit("criminal record")>>, <<AtEol>>>>)>>)>>

AccidentFields == <<
    <<"type", "field",
      <<Lit("type of accident"), Lazy(0, Inf, <<NotIn({"\n"})>>), Grp(1, <<Rep(1, Inf, <<NotIn({"\n", "\r"})>>)>>)>>>>,
    <<"date", "field",
      <<Lit("date of accident"), Lazy(0, Inf, <<NotIn({"\n"})>>), Grp(1, <<Rep(1, Inf, <<NotIn({"\n", "\r"})>>)>>)>>>>,
    <<"hazmat_involved", "boolean",
      <<Lit("hazmat accident"), Lazy(0, Inf, <<NotIn({"\n"})>>), Rep(1, Inf, <<In(Space)>>), Grp(1, <<Alt(<<<<Lit("yes")>>, <<Lit("no")>>>>)>>)>>>>,
    <<"vehicle_towed", "boolean",
      <<Lit("any vehicle towed away?"), Rep(1, Inf, <<In(Space)>>), Grp(1, <<Alt(<<<<Lit("yes")>>, <<Lit("no")>>>>)>>)>>>>,
    <<"city", "field",
      <<Lit("city"), Rep(1, Inf, <<In(Space)>>), Grp(1, <<Rep(1, Inf, <<NotIn({"\n", "\r"})>>)>>)>>>>,
    <<"state", "field",
      <<Lit("state/province"), Rep(1, Inf, <<In(Space)>>), Grp(1, <<Rep(1, Inf, <<NotIn({"\n", "\r"})>>)>>)>>>>,
    <<"commercial_vehicle", "boolean",
      <<Lit("were you in a commercial vehicle?"), Rep(1, Inf, <<In(Space)>>), Grp(1, <<Alt(<<<<Lit("yes")>>, <<Lit("no")>>>>)>>)>>>>,
    <<"dot_recordable", "boolean",
      <<Lit("department of transportation recordable accident?"), Rep(1, Inf, <<In(Space)>>), Grp(1, <<Alt(<<<<Lit("yes")>>, <<Lit("no")>>>>)>>)>>>>,
    <<"at_fault", "boolean",
      <<Lit("were you at fault?"), Rep(1, Inf, <<In(Space)>>), Grp(1, <<Alt(<<<<Lit("yes")>>, <<Lit("no")>>>>)>>)>>>>,
    <<"ticketed", "boolean",
      <<Lit("were you ticketed?"), Rep(1, Inf, <<In(Space)>>), Grp(1, <<Alt(<<<<Lit("yes")>>, <<Lit("no")>>>>)>>)>>>>,
    <<"description", "field",
      <<Lit("description"), Rep(1, Inf, <<In(Space)>>), Grp(1, <<Rep(1, Inf, <<NotIn({"\n", "\r"})>>), Rep(0, Inf, <<Lit("\n"), Rep(1, Inf, <<NotIn({"\n", "\r"})>>)>>)>>)>>>> >>


_extract_employment_field(text, pattern) ==
    With(Search(pattern, text, IGNORECASE), LAMBDA match :
        IF match.start = 0 THEN PyNone
        ELSE With(Strip(Group(text, match, 1)), LAMBDA val :
                 IF val # "" /\ Lower(val) \notin {"", "none", "n/a"} THEN PyStr(val)
                 ELSE PyNone))

_extract_employment_boolean(text, pattern) ==
    With(Search(pattern, text, IGNORECASE), LAMBDA match :
        IF match.start = 0 THEN PyNone
        ELSE PyBool(Lower(Strip(Group(text, match, 1))) = "yes"))

\* The dictionary literal built for one block: every key of the table, each
\* resolved against the block's text alone.
BlockRecord(block_text, fields) ==
    LET row(key) == fields[CHOOSE i \in DOMAIN fields : fields[i][1] = key]
    IN  [key \in {fields[i][1] : i \in DOMAIN fields} |->
            IF row(key)[2] = "field"
            THEN _extract_employment_field(block_text, row(key)[3])
            ELSE _extract_employment_boolean(block_text, row(key)[3])]

\* Blocks that run from their Company marker to the end of the text.
EmploymentBlocks_ToEnd(text) ==
    With(FindIter(employment_pattern, text, IGNORECASE), LAMBDA ms :
        [i \in DOMAIN ms |-> SubSeq(text, ms[i].start, Len(text))])

\* The company blocks of the text, in document order: match.group(0) of each
\* match of employment_pattern.
EmploymentBlocks(text) ==
    With(FindIter(employment_pattern, text, IGNORECASE), LAMBDA ms :
        [i \in DOMAIN ms |-> Group0(text, ms[i])])

\* The records appended by the first loop: blocks with a company name.
CompanyRecords(text) ==
    With(EmploymentBlocks(text), LAMBDA blocks :
        SelectSeq([i \in DOMAIN blocks |-> BlockRecord(blocks[i], EmploymentFields)],
                  LAMBDA r : Truthy(r["company_name"])))

\* The records appended by the second loop: one per unemployment match.
UnemploymentRecords(text) ==
    With(FindIter(unemployment_pattern, text, IGNORECASE), LAMBDA ms :
        [i \in DOMAIN ms |->
            [company_name |-> PyStr("UNEMPLOYMENT"),
             start_date |-> PyStr(Strip(Group(text, ms[i], 1))),
             end_date |-> PyStr(Strip(Group(text, ms[i], 2))),
             reason_for_leaving |-> PyStr(Strip(Group(text, ms[i], 3))),
             employment_type |-> PyStr("unemployment")]])

----------------------------------------------------------------------------
\* list.sort(key=..., reverse=True) as CPython 3.11 runs it on a list of
\* fewer than 64 items (one run, extended by binary insertion), with the
\* comparison raising TypeError when a key is None.

\* The characters a string of the model can hold, in code-point order: those
\* of Latin-1 from code point 1 on, without the grave accent (code point 96),
\* which no string constant of the model can contain.
CodeOrder ==
    "\t\n\f\r"
        \o " !\"#$%&'()*+,-./0123456789:;<=>?@ABCDEFGHIJKLMNO"
        \o "PQRSTUVWXYZ[\\]^_abcdefghijklmnopqrstuvwxyz{|}~"
        \o " ¡¢£¤¥¦§¨©ª«¬­®¯°±²³´µ¶·¸¹º»¼½¾¿"
        \o "ÀÁÂÃÄÅÆÇÈÉÊËÌÍÎÏÐÑÒÓÔÕÖ×ØÙÚÛÜÝÞßàáâãäåæçèéêëìíîïðñòóôõö÷øùúûüýþÿ"

\* ord(c): the code point of a character.
Ord(c) ==
    With(CHOOSE i \in 1..Len(CodeOrder) : CharAt(CodeOrder, i) = c, LAMBDA i :
        IF i < 96 THEN i ELSE i + 1)

\* a < b on str
StrLess(a, b) ==
    LET n == IF Len(a) < Len(b) THEN Len(a) ELSE Len(b)
        d == {i \in 1..n : CharAt(a, i) # CharAt(b, i)}
    IN  IF d = {} THEN Len(a) < Len(b)
        ELSE Ord(CharAt(a, MinOf(d))) < Ord(CharAt(b, MinOf(d)))

\* a < b on sort keys: "lt", "ge", or "err" for the TypeError of comparing
\* with None.
KeyLess(a, b) ==
    IF a.t = "None" \/ b.t = "None" THEN "err"
    ELSE IF StrLess(a.v, b.v) THEN "lt" ELSE "ge"

\* The sort key of _extract_employment_history: x.get('start_date', '')
SortKey(x) == IF "start_date" \in DOMAIN x THEN x["start_date"] ELSE PyStr("")

Reverse(xs) == [i \in 1..Len(xs) |-> xs[Len(xs) + 1 - i]]

\* count_run: the length of the run starting the list, whether it is
\* strictly descending, and whether a comparison raised.
RECURSIVE RunEnd(_, _, _)
RunEnd(xs, i, desc) ==
    IF i > Len(xs) THEN [n |-> Len(xs), descending |-> desc, err |-> FALSE]
    ELSE LET c == KeyLess(SortKey(xs[i]), SortKey(xs[i - 1]))
         IN  IF c = "err" THEN [n |-> i - 1, descending |-> desc, err |-> TRUE]
             ELSE IF (c = "lt") = desc THEN RunEnd(xs, i + 1, desc)
             ELSE [n |-> i - 1, descending |-> desc, err |-> FALSE]

count_run(xs) ==
    IF Len(xs) = 1 THEN [n |-> 1, descending |-> FALSE, err |-> FALSE]
    ELSE LET c == KeyLess(SortKey(xs[2]), SortKey(xs[1]))
         IN  IF c = "err" THEN [n |-> 1, descending |-> FALSE, err |-> TRUE]
             ELSE RunEnd(xs, 3, c = "lt")

\* binarysort: the slot of the pivot among xs[l..r-1], 0 if a comparison raised.
RECURSIVE BinarySlot(_, _, _, _)
BinarySlot(xs, pivot, l, r) ==
    IF l >= r THEN l
    ELSE LET p == l + ((r - l) \div 2)
             c == KeyLess(SortKey(pivot), SortKey(xs[p]))
         IN  IF c = "err" THEN 0
             ELSE IF c = "lt" THEN BinarySlot(xs, pivot, l, p)
             ELSE BinarySlot(xs, pivot, p + 1, r)

RECURSIVE binarysort(_, _)
binarysort(xs, start) ==
    IF start > Len(xs) THEN [ok |-> TRUE, list |-> xs]
    ELSE LET l == BinarySlot(xs, xs[start], 1, start)
         IN  IF l = 0 THEN [ok |-> FALSE, list |-> xs]
             ELSE binarysort(SubSeq(xs, 1, l - 1) \o <<xs[start]>> \o SubSeq(xs, l, start - 1)
                             \o SubSeq(xs, start + 1, Len(xs)), start + 1)

\* xs.sort(key=SortKey, reverse=True): ok is FALSE when TypeError was raised,
\* and list is the list as the call leaves it either way.
ListSortReverse(xs) ==
    IF Len(xs) < 2 THEN [ok |-> TRUE, list |-> xs]
    ELSE LET r == Reverse(xs)
             run == count_run(r)
             r2 == IF run.descending
                   THEN Reverse(SubSeq(r, 1, run.n)) \o SubSeq(r, run.n + 1, Len(r))
                   ELSE r
             bs == binarysort(r2, run.n + 1)
         IN  IF run.err THEN [ok |-> FALSE, list |-> xs]
             ELSE [ok |-> bs.ok, list |-> Reverse(bs.list)]

\* _extract_employment_history: company records, then unemployment records,
\* then the sort, whose TypeError is swallowed: the list is returned as the
\* sort left it.
_extract_employment_history(text) ==
    ListSortReverse(CompanyRecords(text) \o UnemploymentRecords(text)).list

\* An accident history that keeps every block it finds.
_extract_accident_history_Unfiltered(text) ==
    With(FindIter(accident_pattern, text, IGNORECASE), LAMBDA ms :
        [i \in DOMAIN ms |-> BlockRecord(Group0(text, ms[i]), AccidentFields)])

\* _extract_accident_history: the blocks with a type or a date.
_extract_accident_history(text) ==
    With(FindIter(accident_pattern, text, IGNORECASE), LAMBDA ms :
        SelectSeq([i \in DOMAIN ms |-> BlockRecord(Group0(text, ms[i]), AccidentFields)],
                  LAMBDA r : Truthy(r["type"]) \/ Truthy(r["date"])))

----------------------------------------------------------------------------
\* enhanced_pdf_parser.py: parse_pdf and its text extraction.

\* d.get(key): the value under key, None when the key is missing.
Get(d, key) == IF key \in DOMAIN d THEN d[key] ELSE PyNone

\* A library's run over a document is the page texts it yields (an empty
\* text for a page it reads nothing from) and whether it then raises.  The
\* loop keeps what it appended before the exception: text += page_text + "\n"
\* for every page whose text is not empty.
RECURSIVE PagesText(_)
PagesText(pages) ==
    IF pages = <<>> THEN ""
    ELSE (IF Head(pages) # "" THEN Head(pages) \o "\n" ELSE "") \o PagesText(Tail(pages))

\* _extract_text_from_pdf: pdfplumber first, PyPDF2 appended when the text so
\* far is blank; ok is FALSE when the text is still blank and the method
\* raises "Could not extract text from PDF".
_extract_text_from_pdf(doc) ==
    With(PagesText(doc.pdfplumber.pages), LAMBDA first :
        With(IF Strip(first) = "" THEN first \o PagesText(doc.pypdf2.pages) ELSE first,
             LAMBDA text : [ok |-> Strip(text) # "", text |-> text]))

\* pdf_path.split('/')[-1]
LastSegment(path) ==
    LET slashes == {i \in 1..Len(path) : CharAt(path, i) = "/"}
    IN  IF slashes = {} THEN path ELSE SubSeq(path, MaxOf(slashes) + 1, Len(path))

\* The dictionary parse_pdf starts from.
InitialResult(pdf_path, text, now) ==
    [k \in {"pdf_filename", "raw_text", "parsing_timestamp", "extraction_metadata"} |->
        CASE k = "pdf_filename" -> PyStr(LastSegment(pdf_path))
          [] k = "raw_text" -> PyStr(text)
          [] k = "parsing_timestamp" -> PyStr(now)
          [] k = "extraction_metadata" ->
                PyDict(<<<<"total_sections_processed", PyInt(IntStr(Cardinality(get_all_sections)))>>,
                         <<"fields_attempted", PyInt(IntStr(Len(ALL_ENHANCED_FIELD_MAPPINGS)))>>,
                         <<"fields_extracted", PyInt("0")>>,
                         <<"sections_found", {}>>>>)]

\* The loop over the sections: result.update(section_data) for each, and the
\* section recorded as found when it gave any field.  get_all_sections is
\* list(set(...)), whose order is arbitrary; no two sections share a field
\* name, so the order decides only the order of sections_found, kept as a set.
WithSections(result, text) ==
    With([s \in get_all_sections |-> _extract_section_data(text, s)], LAMBDA data :
        With({s \in DOMAIN data : DOMAIN data[s] # {}}, LAMBDA found :
            [n \in UNION {DOMAIN data[s] : s \in found} |->
                data[CHOOSE s \in found : n \in DOMAIN data[s]][n]]
            @@ [result EXCEPT !["extraction_metadata"].v.sections_found = found]))

\* The repr of the float that is h hundredths.
HundredthsRepr(h) ==
    IntStr(h \div 100) \o "."
        \o (IF h % 10 = 0 THEN IntStr((h % 100) \div 10) ELSE TwoDigits(h % 100))

\* round(x, 2) of a double x, in hundredths: the hundredth nearest to x, the
\* even one when x lies midway between two.
Round2(x) ==
    IF x.kind # "finite" THEN 0
    ELSE Small(NearestWhole(Times(Numerator(x), <<100>>), Denominator(x), 2))

\* (extracted / total) * 100 in doubles: the division rounded, then the
\* product rounded.
Ratio100(extracted_fields, total_fields) ==
    IF extracted_fields = 0 THEN Zero
    ELSE DoubleTimes(DoubleQuotient(extracted_fields, total_fields), 100,
                     Len(IntStr(100 * extracted_fields)) - Len(IntStr(total_fields)))

\* extracted / total * 100 rounded to 2 places, with no min(100.0, ...).
Percent_Uncapped(extracted_fields, total_fields) ==
    IF total_fields = 0 THEN 0
    ELSE Round2(Ratio100(extracted_fields, total_fields))

\* min(100.0, extracted / total * 100) rounded to 2 places, in hundredths.
Percent(extracted_fields, total_fields) ==
    IF total_fields = 0 THEN 0
    ELSE Given(Ratio100(extracted_fields, total_fields), LAMBDA confidence :
             IF confidence.kind = "finite"
                /\ Compare(Numerator(confidence), Times(<<100>>, Denominator(confidence))) > 0
             THEN 10000
             ELSE Round2(confidence))

\* A scorer that leaves the three required fields out of the base count.
ConfidenceOver_RequiredOnce(field_mappings, result) ==
    LET counted == {i \in DOMAIN field_mappings :
                       /\ field_mappings[i].field_name \in DOMAIN result
                       /\ result[field_mappings[i].field_name] # PyNone
                       /\ field_mappings[i].field_name
                              \notin {"full_name", "email", "license_number"}}
        bonus == IF Truthy(Get(result, "employment_history")) THEN 5 ELSE 0
        required == {n \in {"full_name", "email", "license_number"} : Truthy(Get(result, n))}
    IN  Given(Cardinality(counted) + bonus + 2 * Cardinality(required),
              LAMBDA extracted_fields : Percent(extracted_fields, Len(field_mappings)))

\* _calculate_parsing_confidence over self.field_mappings, in hundredths: the
\* catalog fields of the result that are not None, 5 more for a non-empty
\* employment history, 2 more for each of the three required fields present.
ConfidenceOver(field_mappings, result) ==
    LET counted == {i \in DOMAIN field_mappings :
                       /\ field_mappings[i].field_name \in DOMAIN result
                       /\ result[field_mappings[i].field_name] # PyNone}
        bonus == IF Truthy(Get(result, "employment_history")) THEN 5 ELSE 0
        required == {n \in {"full_name", "email", "license_number"} : Truthy(Get(result, n))}
    IN  Given(Cardinality(counted) + bonus + 2 * Cardinality(required),
              LAMBDA extracted_fields : Percent(extracted_fields, Len(field_mappings)))

ConfidenceHundredths(result) == ConfidenceOver(ALL_ENHANCED_FIELD_MAPPINGS, result)

_calculate_parsing_confidence(result) == PyFloat(HundredthsRepr(ConfidenceHundredths(result)))

\* The last steps of parse_pdf: the confidence, then the count of the entries
\* that are not None outside the three bookkeeping keys.
Finished(result) ==
    Given(("parsing_confidence" :> _calculate_parsing_confidence(result)) @@ result,
          LAMBDA scored :
             [scored EXCEPT !["extraction_metadata"].v.fields_extracted =
                 PyInt(IntStr(Cardinality({k \in DOMAIN scored :
                     /\ scored[k] # PyNone
                     /\ k \notin {"raw_text", "extraction_metadata", "parsing_timestamp"}})))])

\* A sort with no handler around it.
SortHandler_None == {}

\* except TypeError: pass -- the exceptions the sort's handler swallows.
SortHandler == {"TypeError"}

\* parse_pdf: the result dictionary, or the exception it raises with its
\* message.
parse_pdf(pdf_path, doc, now) ==
    Given(_extract_text_from_pdf(doc), LAMBDA extracted :
        IF ~extracted.ok
        THEN [status |-> "raised",
              raised |-> "PDF parsing failed: Could not extract text from PDF",
              result |-> PyNone]
        ELSE Given(ListSortReverse(CompanyRecords(extracted.text)
                                       \o UnemploymentRecords(extracted.text)),
                   LAMBDA sorted :
            IF ~sorted.ok /\ "TypeError" \notin SortHandler
            THEN [status |-> "raised",
                  raised |-> "PDF parsing failed: '<' not supported between "
                                 \o "instances of 'NoneType' and 'NoneType'",
                  result |-> PyNone]
            ELSE [status |-> "returned",
                  raised |-> "",
                  result |-> Given(
                      ("accident_history" :> PyList(_extract_accident_history(extracted.text)))
                      @@ ("employment_history" :> PyList(sorted.list))
                      @@ WithSections(InitialResult(pdf_path, extracted.text, now),
                                      extracted.text),
                      Finished)]))

----------------------------------------------------------------------------
\* routes/driver_profiles.py: assess_driver_risk.

\* d.get(key, default)
GetOr(d, key, default) == IF key \in DOMAIN d THEN d[key] ELSE default

\* The level and colour of a score, High only above 5.
RiskLevel_Above5(risk_score) ==
    IF risk_score > 5 THEN [level |-> "High", color |-> "red"]
    ELSE IF risk_score >= 2 THEN [level |-> "Medium", color |-> "yellow"]
    ELSE [level |-> "Low", color |-> "green"]

\* The level and colour assess_driver_risk gives a score.
RiskLevel(risk_score) ==
    IF risk_score >= 5 THEN [level |-> "High", color |-> "red"]
    ELSE IF risk_score >= 2 THEN [level |-> "Medium", color |-> "yellow"]
    ELSE [level |-> "Low", color |-> "green"]

\* The characters repr() writes as \xNN: the control characters but tab,
\* line feed and carriage return, and those of Latin-1 that are not
\* printable (codes 127 to 160, and 173).
Unprintable(c) ==
    With(Ord(c), LAMBDA n :
        \/ n < 32 /\ n \notin {9, 10, 13}
        \/ n >= 127 /\ n <= 160
        \/ n = 173)
Hex2(n) == CharAt("0123456789abcdef", n \div 16 + 1) \o CharAt("0123456789abcdef", (n % 16) + 1)

\* What repr() writes for the character c between the quotes quote.
ReprChar(c, quote) ==
    IF c = "\\" THEN "\\\\"
    ELSE IF c = "\t" THEN "\\t"
    ELSE IF c = "\n" THEN "\\n"
    ELSE IF c = "\r" THEN "\\r"
    ELSE IF c = quote THEN "\\" \o c
    ELSE IF Unprintable(c) THEN "\\x" \o Hex2(Ord(c))
    ELSE c

RECURSIVE ReprBody(_, _)
ReprBody(s, quote) ==
    IF Len(s) = 0 THEN ""
    ELSE IF Len(s) = 1 THEN ReprChar(s, quote)
    ELSE ReprBody(SubSeq(s, 1, Len(s) \div 2), quote)
             \o ReprBody(SubSeq(s, Len(s) \div 2 + 1, Len(s)), quote)

\* repr(s) of a str: between double quotes when s holds a single quote and
\* no double quote, between single quotes otherwise.
ReprStr(s) ==
    With(IF Contains(s, "'") /\ ~Contains(s, "\"") THEN "\"" ELSE "'", LAMBDA quote :
        quote \o ReprBody(s, quote) \o quote)

\* The pieces of repr(x): the printed strings, keys and scalars of x, which
\* repr joins with brackets, braces, colons and commas.  (The order of a
\* dictionary's entries decides the order of the pieces only.)
RECURSIVE ReprPieces(_)
ReprPieces(x) ==
    IF ~IsValue(x) THEN UNION {{ReprStr(k)} \cup ReprPieces(x[k]) : k \in DOMAIN x}
    ELSE IF x.t = "str" THEN {ReprStr(x.v)}
    ELSE IF x.t = "list" THEN UNION {ReprPieces(x.v[i]) : i \in DOMAIN x.v}
    ELSE IF x.t = "dict" THEN UNION {{ReprStr(k)} \cup ReprPieces(x.v[k]) : k \in DOMAIN x.v}
    ELSE {ReprScalar(x)}

\* The pieces of str(x): a str is its own text, anything else prints as its
\* repr.
StrPieces(x) == IF IsValue(x) /\ x.t = "str" THEN {x.v} ELSE ReprPieces(x)

\* sep.join(parts)
RECURSIVE Joined(_, _)
Joined(parts, sep) ==
    IF Len(parts) = 0 THEN ""
    ELSE IF Len(parts) = 1 THEN parts[1]
    ELSE Joined(SubSeq(parts, 1, Len(parts) \div 2), sep) \o sep
             \o Joined(SubSeq(parts, Len(parts) \div 2 + 1, Len(parts)), sep)

\* repr(x): a list between brackets and a dictionary between braces, their
\* items by repr and separated by ", ", a key from its value by ": ", the
\* entries of a dictionary in the order its keys were inserted.  (A record of
\* named fields keeps no such order and has no printed form here.)
RECURSIVE Repr(_)
Repr(x) ==
    IF x.t = "dict"
    THEN "{" \o Joined([i \in DOMAIN x.k |->
                           ReprStr(x.k[i]) \o ": " \o Repr(x.v[x.k[i]])], ", ") \o "}"
    ELSE IF x.t = "str" THEN ReprStr(x.v)
    ELSE IF x.t = "list" THEN "[" \o Joined([i \in DOMAIN x.v |-> Repr(x.v[i])], ", ") \o "]"
    ELSE ReprScalar(x)

\* str(x): a str is its own text, anything else prints as its repr.
Str(x) == IF IsValue(x) /\ x.t = "str" THEN x.v ELSE Repr(x)

\* word in str(x), with no .lower().
Mentions_CaseSensitive(x, word) == \E p \in StrPieces(x) : Contains(p, word)

\* word in str(x).lower(), for a word made of letters: such a word lies
\* within one piece of the printed form.
Mentions(x, word) == \E p \in StrPieces(x) : Contains(Lower(p), word)

assess_driver_risk(profile_data) ==
    LET has(key, words) == \E w \in words : Mentions(GetOr(profile_data, key, PyStr("")), w)
        criminal == IF has("criminal_record_status", {"felony", "conviction"})
                    THEN <<[w |-> 3, f |-> "Criminal record found"]>>
                    ELSE IF has("criminal_record_status", {"misdemeanor"})
                    THEN <<[w |-> 1, f |-> "Minor criminal record"]>>
                    ELSE <<>>
        accident == IF has("accident_history", {"accident", "collision"})
                    THEN <<[w |-> 2, f |-> "Accident history reported"]>> ELSE <<>>
        license == IF has("license_suspensions", {"suspended", "revoked"})
                   THEN <<[w |-> 3, f |-> "License suspension/revocation"]>> ELSE <<>>
        drug == IF has("drug_test_results", {"failed", "positive"})
                THEN <<[w |-> 3, f |-> "Drug test failure"]>> ELSE <<>>
        traffic == IF has("traffic_violations", {"violation", "ticket"})
                   THEN <<[w |-> 1, f |-> "Traffic violations"]>> ELSE <<>>
        found == criminal \o accident \o license \o drug \o traffic
        Sum[i \in 0..Len(found)] == IF i = 0 THEN 0 ELSE Sum[i - 1] + found[i].w
        risk_score == Sum[Len(found)]
        risk_level == RiskLevel(risk_score).level
    IN  [level |-> PyStr(risk_level),
         score |-> PyInt(IntStr(risk_score)),
         color |-> PyStr(RiskLevel(risk_score).color),
         factors |-> PyList([i \in DOMAIN found |-> PyStr(found[i].f)]),
         recommendation |-> PyStr(
             CASE risk_level = "Low" ->
                    "Candidate appears to have a clean record. Proceed with standard hiring process."
               [] risk_level = "Medium" ->
                    "Some concerns identified. Consider additional screening or interview questions."
               [] OTHER ->
                    "Significant risk factors present. Thorough review and additional verification recommended.")]

----------------------------------------------------------------------------
\* models/driver_profile.py: the assembler.

\* The upper-case forms: of a letter that is the lower-case form of another,
\* that other letter; of the sharp s, "SS".  (The upper-case forms of the
\* micro sign and of y with diaeresis lie outside Latin-1.)
UpperMap ==
    [c \in {LowerMap[u] : u \in DOMAIN LowerMap} \cup {"ß"} |->
        IF c = "ß" THEN "SS" ELSE CHOOSE u \in DOMAIN LowerMap : LowerMap[u] = c]

\* str.upper()
RECURSIVE Upper(_)
Upper(s) ==
    IF Len(s) = 0 THEN ""
    ELSE IF Len(s) = 1 THEN (IF s \in DOMAIN UpperMap THEN UpperMap[s] ELSE s)
    ELSE LET h == Len(s) \div 2
         IN  Upper(SubSeq(s, 1, h)) \o Upper(SubSeq(s, h + 1, Len(s)))

\* s.split(',')
Split(s) ==
    LET commas == {i \in 1..Len(s) : CharAt(s, i) = ","}
        nth(k) == IF k = 0 THEN 0
                  ELSE IF k > Cardinality(commas) THEN Len(s) + 1
                  ELSE CHOOSE p \in commas : Cardinality({q \in commas : q < p}) = k - 1
    IN  [k \in 1..(Cardinality(commas) + 1) |-> SubSeq(s, nth(k - 1) + 1, nth(k) - 1)]

\* The employment records the assembler builds: only from the comma-separated
\* previous_employers entry of the parsed data and its companions, at most
\* five, and only those with an employer name.
EmploymentRecords(parsed_data) ==
    LET part(key) == Split(Str(GetOr(parsed_data, key, PyStr(""))))
        employers == part("previous_employers")
        positions == part("positions_held")
        dates == part("employment_dates")
        reasons == part("reasons_for_leaving")
        supervisors == part("supervisor_contacts")
        at(list, i) == IF i <= Len(list) THEN PyStr(Strip(list[i])) ELSE PyNone
        max_records == MaxOf({Len(employers), Len(positions), Len(dates)})
        count == IF max_records < 5 THEN max_records ELSE 5
        records == [i \in 1..count |->
                       [employer_name |-> at(employers, i),
                        position |-> at(positions, i),
                        start_date |-> at(dates, i),
                        end_date |-> PyNone,
                        reason_for_leaving |-> at(reasons, i),
                        supervisor_name |-> PyNone,
                        supervisor_contact |-> at(supervisors, i)]]
    IN  IF Truthy(Get(parsed_data, "previous_employers"))
        THEN SelectSeq(records, LAMBDA r : Truthy(r.employer_name))
        ELSE <<>>

\* create_driver_profile_from_parsed_data, with DriverProfile.__post_init__
\* and RiskAssessment.__post_init__, which makes factors that are None the
\* empty list.
\* minted carries what the construction draws from outside: the uuid4 and the
\* three readings of the clock, for metadata.processed_at, created_at and
\* updated_at in the order they are taken.  A dataclass is the record of its
\* fields.
create_driver_profile_from_parsed_data(parsed_data, metadata, risk_assessment, minted) ==
    [driver_id |-> PyStr(minted.uuid),
     profile_id |-> PyStr("DRV-" \o Upper(SubSeq(minted.uuid, 1,
                                                 IF Len(minted.uuid) < 8 THEN Len(minted.uuid) ELSE 8))),
     personal |-> [k \in {"full_name", "email", "phone", "address", "date_of_birth",
                          "social_security", "emergency_contact_name",
                          "emergency_contact_phone"} |-> Get(parsed_data, k)],
     license |-> [k \in {"license_number", "license_class", "license_state",
                         "license_expiration", "endorsements", "restrictions"} |->
                     Get(parsed_data, k)],
     employment |-> [years_experience |-> Get(parsed_data, "years_experience"),
                     current_employment_status |-> Get(parsed_data, "employment_status"),
                     previous_positions |-> PyList(EmploymentRecords(parsed_data))],
     safety |-> [k \in {"criminal_record_status", "accident_history", "traffic_violations",
                        "drug_test_results", "license_suspensions", "dui_convictions"} |->
                    IF k = "dui_convictions" THEN PyNone ELSE Get(parsed_data, k)],
     education |-> [k \in {"trucking_school", "graduation_status", "training_hours", "gpa",
                           "certifications"} |->
                       IF k = "certifications" THEN PyNone ELSE Get(parsed_data, k)],
     compliance |-> [k \in {"fcra_authorization", "background_check_consent", "psp_disclosure",
                            "clearinghouse_consent", "drug_testing_consent"} |->
                        IF k = "drug_testing_consent" THEN PyNone ELSE Get(parsed_data, k)],
     risk_assessment |-> [level |-> GetOr(risk_assessment, "level", PyStr("Unknown")),
                          score |-> GetOr(risk_assessment, "score", PyInt("0")),
                          color |-> GetOr(risk_assessment, "color", PyStr("gray")),
                          factors |-> With(GetOr(risk_assessment, "factors", PyList(<<>>)),
                                           LAMBDA factors :
                                               IF IsValue(factors) /\ factors.t = "None"
                                               THEN PyList(<<>>) ELSE factors),
                          recommendation |-> GetOr(risk_assessment, "recommendation", PyStr(""))],
     metadata |-> [filename |-> Get(metadata, "filename"),
                   confidence_score |-> GetOr(metadata, "confidence_score", PyFloat("0.0")),
                   total_fields_extracted |-> GetOr(metadata, "total_fields_extracted", PyInt("0")),
                   processing_time |-> Get(metadata, "processing_time"),
                   api_version |-> GetOr(metadata, "api_version", PyStr("2.0")),
                   processed_at |-> PyStr(minted.processed_at)],
     status |-> PyStr("pending"),
     created_at |-> PyStr(minted.created_at),
     updated_at |-> PyStr(minted.updated_at)]


\* to_json_safe: clean_dict over asdict(profile) drops, at every level of
\* dictionaries, the entries that are None, [] or "", and the None items of
\* lists.  The entries kept stay in their order.
RECURSIVE clean_dict(_)
clean_dict(d) ==
    LET kept(v) == v # PyNone /\ v # PyList(<<>>) /\ v # PyStr("")
    IN  IF ~IsValue(d) THEN [k \in {k \in DOMAIN d : kept(d[k])} |-> clean_dict(d[k])]
        ELSE IF d.t = "dict"
        THEN LET keys == SelectSeq(d.k, LAMBDA k : kept(d.v[k]))
             IN  PyDict([i \in DOMAIN keys |-> <<keys[i], clean_dict(d.v[keys[i]])>>])
        ELSE IF d.t = "list"
        THEN LET items == SelectSeq(d.v, LAMBDA item : item # PyNone)
             IN  PyList([i \in DOMAIN items |-> clean_dict(items[i])])
        ELSE d

\* A to_json_safe that cleans the top level of the dictionary only.
to_json_safe_Shallow(profile_) ==
    [k \in {k \in DOMAIN profile_ : profile_[k] # PyNone /\ profile_[k] # PyList(<<>>)
                                    /\ profile_[k] # PyStr("")} |-> profile_[k]]

to_json_safe(profile_) == clean_dict(profile_)

\* EmploymentRecord(employer_name=..., position=...): the other fields default.
EmploymentRecord(employer_name, position) ==
    [employer_name |-> employer_name, position |-> position, start_date |-> PyNone,
     end_date |-> PyNone, reason_for_leaving |-> PyNone, supervisor_name |-> PyNone,
     supervisor_contact |-> PyNone]

\* DriverProfile(): every field at its default, then __post_init__, which
\* mints the identifiers, builds the empty groups and reads the clock, once
\* for created_at and once more for updated_at.
DriverProfile(minted) ==
    [driver_id |-> PyStr(minted.uuid),
     profile_id |-> PyStr("DRV-" \o Upper(SubSeq(minted.uuid, 1,
                                                 IF Len(minted.uuid) < 8 THEN Len(minted.uuid) ELSE 8))),
     personal |-> [k \in {"full_name", "email", "phone", "address", "date_of_birth",
                          "social_security", "emergency_contact_name",
                          "emergency_contact_phone"} |-> PyNone],
     license |-> [k \in {"license_number", "license_class", "license_state",
                         "license_expiration", "endorsements", "restrictions"} |-> PyNone],
     employment |-> [years_experience |-> PyNone,
                     current_employment_status |-> PyNone,
                     previous_positions |-> PyList(<<>>)],
     safety |-> [k \in {"criminal_record_status", "accident_history", "traffic_violations",
                        "drug_test_results", "license_suspensions", "dui_convictions"} |->
                    PyNone],
     education |-> [k \in {"trucking_school", "graduation_status", "training_hours", "gpa",
                           "certifications"} |-> PyNone],
     compliance |-> [k \in {"fcra_authorization", "background_check_consent", "psp_disclosure",
                            "clearinghouse_consent", "drug_testing_consent"} |-> PyNone],
     risk_assessment |-> [level |-> PyStr("Unknown"),
                          score |-> PyInt("0"),
                          color |-> PyStr("gray"),
                          factors |-> PyList(<<>>),
                          recommendation |-> PyStr("")],
     metadata |-> [filename |-> PyNone,
                   confidence_score |-> PyFloat("0.0"),
                   total_fields_extracted |-> PyInt("0"),
                   processing_time |-> PyNone,
                   api_version |-> PyStr("2.0"),
                   processed_at |-> PyNone],
     status |-> PyStr("pending"),
     created_at |-> PyStr(minted.created_at),
     updated_at |-> PyStr(minted.updated_at)]

----------------------------------------------------------------------------
\* services/profile_service.py.

\* The row store_profile prepares for the driver_profiles table.
ProfileRow(profile_) ==
    [driver_id |-> profile_.driver_id,
     profile_id |-> profile_.profile_id,
     full_name |-> profile_.personal.full_name,
     email |-> profile_.personal.email,
     phone |-> profile_.personal.phone,
     address |-> profile_.personal.address,
     date_of_birth |-> profile_.personal.date_of_birth,
     social_security |-> profile_.personal.social_security,
     emergency_contact_name |-> profile_.personal.emergency_contact_name,
     emergency_contact_phone |-> profile_.personal.emergency_contact_phone,
     license_number |-> profile_.license.license_number,
     license_class |-> profile_.license.license_class,
     license_state |-> profile_.license.license_state,
     license_expiration |-> profile_.license.license_expiration,
     endorsements |-> profile_.license.endorsements,
     restrictions |-> profile_.license.restrictions,
     years_experience |-> profile_.employment.years_experience,
     current_employment_status |-> profile_.employment.current_employment_status,
     employment_history |-> profile_.employment.previous_positions,
     criminal_record_status |-> profile_.safety.criminal_record_status,
     accident_history |-> profile_.safety.accident_history,
     traffic_violations |-> profile_.safety.traffic_violations,
     drug_test_results |-> profile_.safety.drug_test_results,
     license_suspensions |-> profile_.safety.license_suspensions,
     trucking_school |-> profile_.education.trucking_school,
     graduation_status |-> profile_.education.graduation_status,
     training_hours |-> profile_.education.training_hours,
     gpa |-> profile_.education.gpa,
     fcra_authorization |-> profile_.compliance.fcra_authorization,
     background_check_consent |-> profile_.compliance.background_check_consent,
     psp_disclosure |-> profile_.compliance.psp_disclosure,
     clearinghouse_consent |-> profile_.compliance.clearinghouse_consent,
     risk_level |-> profile_.risk_assessment.level,
     risk_score |-> profile_.risk_assessment.score,
     risk_factors |-> profile_.risk_assessment.factors,
     risk_recommendation |-> profile_.risk_assessment.recommendation,
     filename |-> profile_.metadata.filename,
     confidence_score |-> profile_.metadata.confidence_score,
     total_fields_extracted |-> profile_.metadata.total_fields_extracted,
     processing_time |-> profile_.metadata.processing_time,
     api_version |-> profile_.metadata.api_version,
     processed_at |-> profile_.metadata.processed_at,
     profile_data |-> to_json_safe(profile_),
     status |-> profile_.status,
     created_at |-> profile_.created_at,
     updated_at |-> profile_.updated_at]

\* What the database does with a call: "ok" carries it out and returns the
\* rows, "raises" fails the call, "uninitialized" is the client that could
\* not be created (supabase_client = None); "nodata" returns without rows
\* and without having written, "stored_nodata" writes and returns without
\* rows (result.data empty in both).
StorageStates == {"ok", "raises", "uninitialized", "nodata", "stored_nodata"}

\* The states in which a call writes, and those in which rows come back.
Writes(storage_) == storage_ \in {"ok", "stored_nodata"}
Returns(storage_) == storage_ = "ok"

\* A store_profile that reports the row as stored whatever the insert did.
store_profile_Optimistic(table, storage_, profile_) ==
    [table |-> IF Writes(storage_) THEN Append(table, ProfileRow(profile_)) ELSE table,
     stored |-> TRUE]

\* store_profile: the table afterwards and whether a stored row came back
\* (result.data[0], against None when the call raised or result.data is
\* empty).
store_profile(table, storage_, profile_) ==
    [table |-> IF Writes(storage_) THEN Append(table, ProfileRow(profile_)) ELSE table,
     stored |-> Returns(storage_)]

\* create_profile_from_pdf_data: the profile when its row was stored, else
\* None; the table afterwards.
create_profile_from_pdf_data(table, storage_, parsed_data, metadata, risk_assessment, minted) ==
    With(create_driver_profile_from_parsed_data(parsed_data, metadata, risk_assessment, minted),
         LAMBDA profile_ :
             With(store_profile(table, storage_, profile_), LAMBDA outcome :
                 [table |-> outcome.table,
                  profile |-> IF outcome.stored THEN profile_ ELSE PyNone]))

\* The rows .eq('driver_id', driver_id) selects.
RowsOf(table, driver_id) == {i \in DOMAIN table : table[i].driver_id = driver_id}

\* update_profile_status: the table afterwards and the answer, bool(result.data).
\* The update writes the status and 'now()' into every row of the driver_id
\* and returns those rows; a failing call is caught and answers False.
update_profile_status(table, storage_, driver_id, status) ==
    [table |-> IF Writes(storage_)
               THEN [i \in DOMAIN table |->
                        IF i \in RowsOf(table, driver_id)
                        THEN [table[i] EXCEPT !.status = status, !.updated_at = PyStr("now()")]
                        ELSE table[i]]
               ELSE table,
     updated |-> Returns(storage_) /\ RowsOf(table, driver_id) # {}]

\* The uuid4 and the clock readings of the DriverProfile() that
\* _create_profile_from_db_data constructs before it overwrites the
\* identifiers and the timestamps.
Scratch ==
    [uuid |-> "00000000-0000-4000-8000-000000000000",
     created_at |-> "2024-01-02T00:00:00", updated_at |-> "2024-01-02T00:00:00.000125"]

\* _create_profile_from_db_data: a DriverProfile() given the identifiers, the
\* status and the timestamps of the row.
_create_profile_from_db_data(db_data) ==
    [DriverProfile(Scratch) EXCEPT
        !.driver_id = Get(db_data, "driver_id"),
        !.profile_id = Get(db_data, "profile_id"),
        !.status = Get(db_data, "status"),
        !.created_at = Get(db_data, "created_at"),
        !.updated_at = Get(db_data, "updated_at")]

\* get_profile_by_id: the profile rebuilt from the first row of the
\* driver_id, None when there is no row or the call fails.
get_profile_by_id(table, storage_, driver_id) ==
    IF Returns(storage_) /\ RowsOf(table, driver_id) # {}
    THEN _create_profile_from_db_data(table[MinOf(RowsOf(table, driver_id))])
    ELSE PyNone

\* A list of statuses that also admits "archived".
valid_statuses_Open == {"pending", "reviewed", "approved", "rejected", "archived"}

\* valid_statuses of the update-status route.
valid_statuses == {"pending", "reviewed", "approved", "rejected"}

----------------------------------------------------------------------------
\* What each specification leaves untouched.
NoResolve == raw_text = "" /\ field = 0
NoCoerce == raw_value = "" /\ field_type = "" /\ capture = [form |-> "none"]
NoEmployment == employment_history = <<>> /\ document = <<>>
NoRoute ==
    /\ request = [has_file |-> FALSE, filename |-> ""]
    /\ response = [status |-> 0]
    /\ temp_path = PyNone
    /\ temp_files = {}
    /\ profiles = <<>>
    /\ storage = "ok"
    /\ handled = 0
NoParse == parse_result = [status |-> "none", raised |-> "", result |-> <<>>] /\ profile = PyNone

----------------------------------------------------------------------------
\* Value coercion: _convert_field_value applied to one captured string.

MaxMonth == 12
MaxDay == 15
Years == {1999, 2024}
Prefixes == {"", "DOB: "}
Suffixes == {"", " (verified)"}
DateForms == {"mdy-dash", "mdy-slash", "ymd"}
OtherCaptures ==
    {"none", "N/A", "Not Found", "not a date", "yes", "No", "TRUE", "y", "12", "007", "1.5",
     "12a", "1.2.3", "John.Doe@Example.COM", "not-an-email", "555-123-4567", "5551234",
     "123-45-6789", "12345", "  padded  ", "12/2019", "3-15-24", "15.3.2024",
     "", "NONE", "None", "n/a", "not found", "NOT FOUND", "nOt FoUnD", "nobody", "n/a.",
     "a@b.co", "jane.roe@example.com", "Jane_Roe+x%1@Mail.Example-1.org", "Jane@Example",
     "@example.com", "jane@example.c", "ja ne@example.com", "jane@@example.com",
     "jane@example.com.", "jane@example.c0m", "jane@.com", "jane.roe@example.com, home",
     "mail: jane@example.com", "none@N/A.example"}

\* The captured string of a date written in one of the three forms.
DateCapture(c) ==
    LET m == IF c.padded THEN TwoDigits(c.month) ELSE IntStr(c.month)
        d == IF c.padded THEN TwoDigits(c.day) ELSE IntStr(c.day)
        y == IntStr(c.year)
    IN  c.prefix \o
        (CASE c.form = "mdy-dash" -> m \o "-" \o d \o "-" \o y
           [] c.form = "mdy-slash" -> m \o "/" \o d \o "/" \o y
           [] c.form = "ymd" -> y \o "-" \o m \o "-" \o d)
        \o c.suffix

InitCoerce ==
    /\ pc = "coerce"
    /\ \/ /\ capture \in [form : DateForms, month : 1..MaxMonth, day : 1..MaxDay, year : Years,
                          padded : BOOLEAN, prefix : Prefixes, suffix : Suffixes]
          /\ raw_value = DateCapture(capture)
          /\ field_type \in {"date", "text"}
       \/ /\ capture = [form |-> "other"]
          /\ raw_value \in OtherCaptures
          /\ field_type \in FieldType
    /\ value = PyNone
    /\ NoResolve /\ NoEmployment
    /\ NoParse /\ NoRoute

Convert ==
    /\ pc = "coerce"
    /\ value' = _convert_field_value(raw_value, field_type)
    /\ pc' = "coerced"
    /\ UNCHANGED <<raw_text, field, raw_value, field_type, employment_history, capture, document>>
    /\ UNCHANGED <<parse_result, profile>>
    /\ UNCHANGED routeVars

NextCoerce == Convert

SpecCoerce == InitCoerce /\ [][NextCoerce]_vars

\* C5: a captured date written year first, YYYY-M-D, coerces to YYYY-MM-DD with
\* the same year, month and day, month and day zero-padded to two digits.
C5_YearFirstDate ==
    (pc = "coerced" /\ field_type = "date" /\ capture.form = "ymd")
        => value = PyStr(IntStr(capture.year) \o "-" \o TwoDigits(capture.month)
                         \o "-" \o TwoDigits(capture.day))

\* C6: a captured date written month first, M-D-YYYY or M/D/YYYY, coerces to
\* YYYY-MM-DD, the first group as month and the second as day, each
\* zero-padded to two digits.
C6_MonthFirstDate ==
    (pc = "coerced" /\ field_type = "date" /\ capture.form \in {"mdy-dash", "mdy-slash"})
        => value = PyStr(IntStr(capture.year) \o "-" \o TwoDigits(capture.month)
                         \o "-" \o TwoDigits(capture.day))

C6_Witness ==
    /\ pc = "coerced"
    /\ field_type = "date"
    /\ raw_value = "3-15-2024"
    /\ value = PyStr("2024-03-15")

\* The strings the strict single-line email pattern describes, character by
\* character: one "@"; before it one or more letters, digits and ._%+-;
\* after it letters, digits, dots and hyphens, then a last dot followed by
\* two or more letters that end the string or stand before the line feed that
\* ends it ("$" without re.MULTILINE matches before a final line feed too).
LocalChars == Alpha \cup Digit \cup {".", "_", "%", "+", "-"}
DomainChars == Alpha \cup Digit \cup {".", "-"}
Within(s, cs) == \A i \in 1..Len(s) : CharAt(s, i) \in cs
StrictEmail(s) ==
    \E end \in {Len(s)} \cup (IF Len(s) > 0 /\ CharAt(s, Len(s)) = "\n" THEN {Len(s) - 1} ELSE {}) :
        \E at \in 1..end : \E dot \in (at + 1)..end :
            /\ CharAt(s, at) = "@"
            /\ CharAt(s, dot) = "."
            /\ at > 1 /\ Within(SubSeq(s, 1, at - 1), LocalChars)
            /\ dot > at + 1 /\ Within(SubSeq(s, at + 1, dot - 1), DomainChars)
            /\ end >= dot + 2 /\ Within(SubSeq(s, dot + 1, end), Alpha)

BlankLike(s) == Lower(s) \in {"", "none", "n/a", "not found"}

\* C19: under the Email type a captured string that matches the strict
\* single-line email pattern is returned lower-cased, and any other non-blank
\* captured string yields absent: it is never kept raw.
C19_EmailLoweredOrAbsent ==
    (pc = "coerced" /\ field_type = "email" /\ capture.form = "other" /\ ~BlankLike(raw_value))
        => value = (IF StrictEmail(raw_value) THEN PyStr(Lower(raw_value)) ELSE PyNone)

C19_Witness ==
    /\ pc = "coerced"
    /\ field_type = "email"
    /\ raw_value = "Jane_Roe+x%1@Mail.Example-1.org"
    /\ StrictEmail(raw_value)
    /\ value = PyStr("jane_roe+x%1@mail.example-1.org")

\* C20: a captured string that is empty or equals "none", "n/a" or "not found"
\* in any letter case coerces to absent under every field type, before any
\* type-specific rule applies.
C20_BlankLikeIsAbsent ==
    (pc = "coerced" /\ capture.form = "other" /\ BlankLike(raw_value)) => value = PyNone

C20_Witness ==
    /\ pc = "coerced"
    /\ field_type = "boolean"
    /\ raw_value = "nOt FoUnD"
    /\ value = PyNone

\* The date forms, character by character: somewhere in s one or two digits,
\* a separator, one or two digits, the same separator and four digits, the
\* separator being "-" or "/"; or four digits, "-", one or two digits, "-" and
\* one digit or more.
Digits(s, from, n) == n >= 1 /\ from + n - 1 <= Len(s) /\ Within(SubSeq(s, from, from + n - 1), Digit)
Is(s, at, c) == at <= Len(s) /\ CharAt(s, at) = c
HasDateForm(s) ==
    \E i \in 1..Len(s) :
        \/ \E a \in 1..2, b \in 1..2, sep \in {"-", "/"} :
              /\ Digits(s, i, a) /\ Is(s, i + a, sep)
              /\ Digits(s, i + a + 1, b) /\ Is(s, i + a + 1 + b, sep)
              /\ Digits(s, i + a + b + 2, 4)
        \/ \E a \in 1..2 :
              /\ Digits(s, i, 4) /\ Is(s, i + 4, "-")
              /\ Digits(s, i + 5, a) /\ Is(s, i + 5 + a, "-")
              /\ Digits(s, i + a + 6, 1)

\* A capture the Number or Date rule cannot parse: int() raises on it, float()
\* raises on it when it holds a ".", or none of the date forms occurs in it.
Unparseable(s, ftype) ==
    \/ ftype = "number" /\ (IF Contains(s, ".") THEN ~FloatOk(s) ELSE ~IntOk(s))
    \/ ftype = "date" /\ ~HasDateForm(s)

\* C21: for a Number or Date field a non-blank captured string that cannot be
\* parsed is returned as the raw trimmed string, unchanged: coercion neither
\* raises nor yields absent.  Captured strings reach the coercion trimmed.
C21_UnparseableKeptRaw ==
    (/\ pc = "coerced" /\ capture.form = "other"
     /\ raw_value = Strip(raw_value) /\ ~BlankLike(raw_value)
     /\ Unparseable(raw_value, field_type))
        => value = PyStr(Strip(raw_value))

C21_Witness ==
    /\ pc = "coerced"
    /\ field_type = "number"
    /\ raw_value = "1.2.3"
    /\ Unparseable(raw_value, field_type)
    /\ value = PyStr("1.2.3")

----------------------------------------------------------------------------
\* Field resolution: _extract_field_value applied to one catalog field and
\* one text.

MaxLines == 2
ResolveLines ==
    {"Referral Code RC-77", "Referral by Jane Roe", "Referral Code N/A",
     "Full Name: John Q. Public", "Name Jane Roe",
     "Date of Birth 3-15-1980", "DOB: 04/01/1975",
     "Primary Phone 555-123-4567", "Phone: 555 987 6543"}

\* The text of a page written line by line.
RECURSIVE JoinLines(_)
JoinLines(ls) == IF ls = <<>> THEN "" ELSE Head(ls) \o "\n" \o JoinLines(Tail(ls))

InitResolve ==
    /\ pc = "resolve"
    /\ \E n \in 0..MaxLines : document \in [1..n -> ResolveLines]
    /\ raw_text = JoinLines(document)
    /\ field \in FieldIndex
    /\ value = PyNone
    /\ employment_history = <<>>
    /\ NoCoerce
    /\ NoParse /\ NoRoute

Resolve ==
    /\ pc = "resolve"
    /\ value' = _extract_field_value(raw_text, ALL_ENHANCED_FIELD_MAPPINGS[field])
    /\ pc' = "resolved"
    /\ UNCHANGED <<raw_text, field, raw_value, field_type, employment_history, capture, document>>
    /\ UNCHANGED <<parse_result, profile>>
    /\ UNCHANGED routeVars

NextResolve == Resolve

SpecResolve == InitResolve /\ [][NextResolve]_vars

\* The patterns of the field under resolution that are found in the text, and
\* the coerced capture of pattern i.
Matching == {i \in DOMAIN ALL_ENHANCED_FIELD_MAPPINGS[field].patterns :
                Search(ALL_ENHANCED_FIELD_MAPPINGS[field].patterns[i], raw_text, IGNORECASE).start # 0}
CaptureOf(i) ==
    _convert_field_value(
        Strip(Group(raw_text,
                    Search(ALL_ENHANCED_FIELD_MAPPINGS[field].patterns[i], raw_text, IGNORECASE), 1)),
        ALL_ENHANCED_FIELD_MAPPINGS[field].field_type)

\* C1: resolution is first-match-wins: the resolved value is the coerced,
\* trimmed capture of the lowest-index pattern found in the text, whatever
\* the later patterns capture, and absent when no pattern is found.
C1_FirstMatchWins ==
    pc = "resolved" =>
        value = IF Matching = {} THEN PyNone ELSE CaptureOf(MinOf(Matching))

C1_Witness ==
    /\ pc = "resolved"
    /\ {1, 2} \subseteq Matching
    /\ CaptureOf(1) # CaptureOf(2)
    /\ CaptureOf(2) # PyNone
    /\ value = CaptureOf(1)
    /\ value # PyNone

\* Some pattern of the field is found with a capture that coerces to a value.
SomeCaptureCoerces == \E i \in Matching : CaptureOf(i) # PyNone

\* C29 as stated: a field resolves to absent only when none of its patterns
\* matches the text; whenever at least one pattern matches with a capture that
\* coerces to a value the resolved value is not absent, an earlier pattern
\* with a blank-like capture or an invalid email notwithstanding.
C29_AbsentOnlyWhenNoMatch ==
    pc = "resolved" =>
        /\ (value = PyNone => Matching = {})
        /\ (SomeCaptureCoerces => value # PyNone)

\* C29 amended: a field resolves to absent only when none of its patterns
\* matches the text or the capture of the first pattern that matches coerces
\* to absent; whenever the first pattern that matches has a capture that
\* coerces to a value the resolved value is not absent, whatever the later
\* patterns capture.
C29_AbsentOnlyByFirstMatch ==
    pc = "resolved" =>
        (value = PyNone <=> (Matching = {} \/ CaptureOf(MinOf(Matching)) = PyNone))

\* The first pattern captures a blank-like text, a later one a value, and the
\* field is absent.
C29_Witness ==
    /\ pc = "resolved"
    /\ Matching # {}
    /\ CaptureOf(MinOf(Matching)) = PyNone
    /\ SomeCaptureCoerces
    /\ value = PyNone

----------------------------------------------------------------------------
\* Employment history: _extract_employment_history applied to a text written
\* block by block, dates as month/year.  A company block is written one label
\* per line, as the application form prints it, or with its labels one after
\* the other on the line of its Company marker.

MaxBlocks == 2
Names == {"Acme Freight", "Beta Lines"}
NoDate == [year |-> 0, month |-> 0]
\* January 2019, December 2019 and January 2020: the latest month is smaller
\* as text than the one before it and greater than the first.
StartDates ==
    {[year |-> 2019, month |-> 1], [year |-> 2019, month |-> 12], [year |-> 2020, month |-> 1]}
Layouts == {"lines", "inline"}
CompanyBlocks ==
    [kind : {"company"}, layout : Layouts, name : Names, start : {NoDate} \cup StartDates,
     position : {"", "Driver"}]
UnemploymentBlocks ==
    [kind : {"unemployment"}, layout : {"lines"}, name : {"UNEMPLOYMENT"}, start : StartDates,
     position : {""}]

MonthYear(d) == TwoDigits(d.month) \o "/" \o IntStr(d.year)

\* The labels a company block carries, in the order of the form, each with
\* the text written after it.
BlockLabels(b) ==
    <<[key |-> "company_name", label |-> "Company", text |-> b.name]>>
        \o (IF b.start = NoDate THEN <<>>
            ELSE <<[key |-> "start_date", label |-> "Start Date", text |-> MonthYear(b.start)]>>)
        \o (IF b.position = "" THEN <<>>
            ELSE <<[key |-> "position_held", label |-> "Position Held", text |-> b.position]>>)

\* The lines of one block.
BlockLines(b) ==
    IF b.kind = "company"
    THEN LET labelled == [i \in DOMAIN BlockLabels(b) |->
                             BlockLabels(b)[i].label \o " " \o BlockLabels(b)[i].text]
         IN  IF b.layout = "inline" THEN <<Joined(labelled, " ")>> ELSE labelled
    ELSE <<"Unemployment", "Start Date " \o MonthYear(b.start),
           "End Date " \o MonthYear(b.start), "Comment Laid off">>

\* The section that follows the employment blocks on the form.
TruckingSchool ==
    <<"Trucking School", "School Name Roadmaster", "Start Date 06/2015", "Position Held Student">>

RECURSIVE BlocksText(_)
BlocksText(bs) ==
    IF bs = <<>> THEN "" ELSE JoinLines(BlockLines(Head(bs))) \o BlocksText(Tail(bs))

DocumentText(doc) ==
    BlocksText(doc.blocks) \o (IF doc.school THEN JoinLines(TruckingSchool) ELSE "")

InitEmployment ==
    /\ pc = "extract"
    /\ \E n \in 0..MaxBlocks :
          document \in [blocks : [1..n -> CompanyBlocks \cup UnemploymentBlocks],
                        school : BOOLEAN]
    /\ raw_text = DocumentText(document)
    /\ employment_history = <<>>
    /\ field = 0
    /\ value = PyNone
    /\ NoCoerce
    /\ NoParse /\ NoRoute

ExtractEmployment ==
    /\ pc = "extract"
    /\ employment_history' = _extract_employment_history(raw_text)
    /\ pc' = "extracted"
    /\ UNCHANGED <<raw_text, field, raw_value, field_type, value, capture, document>>
    /\ UNCHANGED <<parse_result, profile>>
    /\ UNCHANGED routeVars

NextEmployment == ExtractEmployment

SpecEmployment == InitEmployment /\ [][NextEmployment]_vars

\* What a company block of the document says about a sub-field: what is
\* written from its label to the end of the line, None for a label the block
\* does not carry.
Written(b, key) ==
    LET labels == BlockLabels(b)
        at == {i \in DOMAIN labels : labels[i].key = key}
        rest(i) == [j \in 1..(Len(labels) - i) |->
                       labels[i + j].label \o " " \o labels[i + j].text]
    IN  IF at = {} THEN PyNone
        ELSE LET i == CHOOSE i \in at : TRUE
             IN  PyStr(IF b.layout = "inline"
                       THEN Joined(<<labels[i].text>> \o rest(i), " ")
                       ELSE labels[i].text)

\* C7: an employment block spans from its Company marker to the next Company
\* marker, terminator or end of document, so the sub-field labels on the
\* later lines of the block are resolved into the block's record.
C7_BlockSpan ==
    pc = "extracted" =>
        \A i \in DOMAIN document.blocks :
            document.blocks[i].kind = "company" =>
                \E j \in DOMAIN employment_history :
                    /\ employment_history[j]["company_name"] = Written(document.blocks[i], "company_name")
                    /\ employment_history[j]["start_date"] = Written(document.blocks[i], "start_date")
                    /\ employment_history[j]["position_held"] = Written(document.blocks[i], "position_held")

TwoCompaniesThenSchool ==
    /\ document.school
    /\ Len(document.blocks) = 2
    /\ \A i \in 1..2 : document.blocks[i].kind = "company"

\* The record is the one of the block: it has the block's company name, and
\* every value it holds is one the block carries.
RecordOf(record, b) ==
    /\ record["company_name"] = Written(b, "company_name")
    /\ \A key \in DOMAIN record : record[key] \in {PyNone, Written(b, key)}

\* C8, as claimed: two Company blocks followed by the Trucking School section
\* give exactly two records, in document order, and every value of a record
\* is one its own block carries: nothing comes from the other block or from
\* the Trucking School section.
C8_TwoBlocksNoBleed ==
    (pc = "extracted" /\ TwoCompaniesThenSchool) =>
        /\ Len(employment_history) = 2
        /\ \A i \in 1..2 : RecordOf(employment_history[i], document.blocks[i])

\* C8, amended: two Company blocks followed by the Trucking School section
\* give exactly two records, one of each block, and every value of a record
\* is one its own block carries: nothing comes from the other block or from
\* the Trucking School section.  The records are as the
\* sort by start date leaves them: when both records carry a start date and
\* the two differ, the record with the greater start date, compared as text,
\* comes first; otherwise the records are in document order.
C8_TwoBlocksSortedNoBleed ==
    (pc = "extracted" /\ TwoCompaniesThenSchool) =>
        /\ Len(employment_history) = 2
        /\ \E order \in {<<1, 2>>, <<2, 1>>} :
              /\ \A i \in 1..2 : RecordOf(employment_history[i], document.blocks[order[i]])
              /\ LET first == employment_history[1]["start_date"]
                     second == employment_history[2]["start_date"]
                 IN  IF first # PyNone /\ second # PyNone
                     THEN IF order = <<1, 2>> THEN ~StrLess(first.v, second.v)
                          ELSE StrLess(second.v, first.v)
                     ELSE order = <<1, 2>>

\* Two blocks that differ in name, the second with the later start date: its
\* record comes first.
C8_Witness ==
    /\ pc = "extracted"
    /\ TwoCompaniesThenSchool
    /\ document.blocks[1].name # document.blocks[2].name
    /\ document.blocks[1].start = [year |-> 2019, month |-> 1]
    /\ document.blocks[2].start = [year |-> 2020, month |-> 1]
    /\ Len(employment_history) = 2
    /\ RecordOf(employment_history[1], document.blocks[2])
    /\ RecordOf(employment_history[2], document.blocks[1])
    /\ employment_history[1]["start_date"] = PyStr("01/2020")
    /\ employment_history[2]["start_date"] = PyStr("01/2019")

\* The month count of a start date as the records carry it: the month and
\* the year at its head.
Chrono(s) == 12 * ToNat(SubSeq(s.v, 4, 7)) + ToNat(SubSeq(s.v, 1, 2))

\* C9: when every collected entry has a start date, the returned history is
\* ordered most recent first: of two consecutive entries the first does not
\* start chronologically earlier than the second.
C9_MostRecentFirst ==
    (/\ pc = "extracted"
     /\ \A i \in DOMAIN employment_history : employment_history[i]["start_date"] # PyNone)
        => \A i \in 1..(Len(employment_history) - 1) :
              Chrono(employment_history[i]["start_date"])
                  >= Chrono(employment_history[i + 1]["start_date"])

----------------------------------------------------------------------------
\* The sort's fallback: _extract_employment_history applied to a text of
\* company blocks followed by unemployment blocks, which is the order the
\* entries are detected in.

MaxGaps == 3

InitFallback ==
    /\ pc = "extract"
    /\ \E companies \in SeqsOf([kind : {"company"}, layout : {"lines"}, name : Names,
                                start : {NoDate, [year |-> 2020, month |-> 1]}, position : {""}],
                               MaxBlocks),
          gaps \in SeqsOf(UnemploymentBlocks, MaxGaps) :
          document = [blocks |-> companies \o gaps, school |-> FALSE]
    /\ raw_text = DocumentText(document)
    /\ employment_history = <<>>
    /\ field = 0
    /\ value = PyNone
    /\ NoCoerce
    /\ NoParse /\ NoRoute

SpecFallback == InitFallback /\ [][NextEmployment]_vars

\* What tells one entry from another: the company name, and for an
\* unemployment entry its start date.
EntryLabel(r) ==
    IF r["company_name"] = PyStr("UNEMPLOYMENT") THEN <<r["company_name"], r["start_date"]>>
    ELSE <<r["company_name"]>>
BlockLabel(b) ==
    IF b.kind = "unemployment" THEN <<PyStr("UNEMPLOYMENT"), PyStr(MonthYear(b.start))>>
    ELSE <<PyStr(b.name)>>

\* C24: the sort's fallback is global.  If any collected employment entry has
\* a missing start date that cannot be compared, no reordering takes place at
\* all: the returned history is exactly the detection order, company blocks in
\* document order, then unemployment entries in document order.
C24_FallbackKeepsDetectionOrder ==
    (/\ pc = "extracted"
     /\ Len(employment_history) >= 2
     /\ \E i \in DOMAIN employment_history : employment_history[i]["start_date"] = PyNone)
        => /\ Len(employment_history) = Len(document.blocks)
           /\ \A i \in DOMAIN employment_history :
                 EntryLabel(employment_history[i]) = BlockLabel(document.blocks[i])

----------------------------------------------------------------------------
\* The viability checks: _extract_employment_history and
\* _extract_accident_history applied to a text of company blocks followed by
\* accident blocks, some of which carry no usable name, type or date.

WrittenNames == {"Acme Freight", "Beta Lines", "N/A", "none"}
WrittenTypes == {"Rear-end collision", "Sideswipe", "N/A", ""}
AccidentBlocks == [type : WrittenTypes, dated : BOOLEAN]

\* What _extract_employment_field makes of a written value.
Usable(written) == Lower(Strip(written)) \notin {"", "none", "n/a"}

AccidentLines(b) ==
    <<"Type of Accident" \o (IF b.type = "" THEN "" ELSE " " \o b.type)>>
    \o (IF b.dated THEN <<"Date of Accident 03/15/2021">> ELSE <<>>)
    \o <<"Were you at fault? No">>

RECURSIVE ViabilityText(_, _)
ViabilityText(companies, accidents) ==
    IF companies # <<>>
    THEN JoinLines(<<"Company " \o Head(companies), "Position Held Driver">>)
             \o ViabilityText(Tail(companies), accidents)
    ELSE IF accidents # <<>>
    THEN JoinLines(AccidentLines(Head(accidents))) \o ViabilityText(companies, Tail(accidents))
    ELSE JoinLines(<<"Traffic Convictions", "None">>)

InitViability ==
    /\ pc = "histories"
    /\ document \in [companies : SeqsOf(WrittenNames, MaxBlocks),
                     accidents : SeqsOf(AccidentBlocks, MaxBlocks)]
    /\ raw_text = ViabilityText(document.companies, document.accidents)
    /\ employment_history = <<>>
    /\ field = 0
    /\ value = PyNone
    /\ NoCoerce
    /\ NoParse /\ NoRoute

\* The two special extractions of parse_pdf, one after the other.
ExtractHistories ==
    /\ pc = "histories"
    /\ employment_history' = _extract_employment_history(raw_text)
    /\ value' = PyList(_extract_accident_history(raw_text))
    /\ pc' = "collected"
    /\ UNCHANGED <<raw_text, field, raw_value, field_type, capture, document>>
    /\ UNCHANGED <<parse_result, profile>>
    /\ UNCHANGED routeVars

NextViability == ExtractHistories

SpecViability == InitViability /\ [][NextViability]_vars

\* How many items of a sequence satisfy a test.
CountOf(xs, Test(_)) == Cardinality({i \in DOMAIN xs : Test(xs[i])})

\* C25: the viability filter.  Every record of the returned employment history
\* that came from a Company block has a company name, and every record of the
\* returned accident history has a type or a date; a block failing the check
\* is dropped silently: no error is raised and the other blocks keep their
\* records, one for each block with a usable name or type.
C25_ViabilityFilter ==
    pc = "collected" =>
        /\ \A i \in DOMAIN employment_history : employment_history[i]["company_name"] # PyNone
        /\ \A i \in DOMAIN value.v : value.v[i]["type"] # PyNone \/ value.v[i]["date"] # PyNone
        /\ \A n \in {w \in WrittenNames : Usable(w)} :
              CountOf(employment_history, LAMBDA r : r["company_name"] = PyStr(n))
                  = CountOf(document.companies, LAMBDA c : c = n)
        /\ Len(employment_history) = CountOf(document.companies, Usable)
        /\ \A t \in {w \in WrittenTypes : Usable(w)} :
              CountOf(value.v, LAMBDA r : r["type"] = PyStr(t))
                  = CountOf(document.accidents, LAMBDA b : b.type = t)
        /\ Len(value.v) <= CountOf(document.accidents, LAMBDA b : Usable(b.type) \/ b.dated)

C25_Witness ==
    /\ pc = "collected"
    /\ document.companies = <<"N/A", "Beta Lines">>
    /\ document.accidents = <<[type |-> "", dated |-> FALSE], [type |-> "Sideswipe", dated |-> TRUE]>>
    /\ Len(employment_history) = 1
    /\ employment_history[1]["company_name"] = PyStr("Beta Lines")
    /\ Len(value.v) = 1
    /\ value.v[1]["type"] = PyStr("Sideswipe")

----------------------------------------------------------------------------
\* parse_pdf step by step over a document, then the assembly of its result.

MaxPages == 1

\* A page of an application: applicant fields, two employers and a school.
ApplicationPage ==
    "Name Jane Roe\nEmail Jane.Roe@Example.com\nLicense Number X1234567\n"
        \o "Company Acme Freight\nStart Date 01/2020\n"
        \o "Company Beta Lines\nStart Date 12/2019\nTrucking School Roadmaster"

\* A page that reports a gap in employment.
GapPage == "Unemployment\nStart Date 12/2019\nEnd Date 01/2020\nComment Laid off"

\* What page.extract_text() gives each library: nothing, blanks or a page.
PlumberPages == {"", " ", ApplicationPage}
PyPDF2Pages == {"", GapPage}

SeqsUpTo(S, n) == UNION {[1..k -> S] : k \in 0..n}

\* A document is what each library makes of it: the page texts it yields in
\* order and whether it raises after them.
Documents ==
    [pdfplumber : [pages : SeqsUpTo(PlumberPages, MaxPages), fails : BOOLEAN],
     pypdf2 : [pages : SeqsUpTo(PyPDF2Pages, MaxPages), fails : BOOLEAN]]

UploadPath == "/tmp/tmpa1b2c3.pdf"
\* Three readings of the clock as isoformat() writes them, which leaves the
\* microseconds out when there are none.
Clock == "2024-01-01T00:00:00"
LaterClock == "2024-01-01T00:00:00.000250"
LatestClock == "2024-01-01T00:00:00.000500"
Instants == <<Clock, LaterClock, LatestClock>>

\* The three readings the construction of a profile takes, in the order it
\* takes them: between two readings the clock moves on or stands still
\* within its resolution.  (The clock is taken not to be set back.)
Readings ==
    {<<Instants[r[1]], Instants[r[2]], Instants[r[3]]>> :
        r \in {r \in (1..3) \X (1..3) \X (1..3) : r[1] <= r[2] /\ r[2] <= r[3]}}

\* The uuid4 of the n-th constructed profile and the readings of the clock
\* taken for it.
uuid4(n) == "c0ffee0" \o IntStr(n) \o "-0000-4000-8000-000000000000"
Minted(n, readings) ==
    [uuid |-> uuid4(n), processed_at |-> readings[1], created_at |-> readings[2],
     updated_at |-> readings[3]]

\* The metadata create_driver_profile builds for the assembler.
RouteMetadata(filename, parsed_data, result) ==
    [filename |-> PyStr(filename),
     api_version |-> PyStr("2.0"),
     parser_type |-> PyStr("enhanced_driver_profile"),
     total_fields_extracted |->
         PyInt(IntStr(Cardinality({k \in DOMAIN parsed_data : Truthy(parsed_data[k])}))),
     confidence_score |-> GetOr(result, "confidence", PyInt("0")),
     processing_time |-> GetOr(result, "processing_time", PyStr("N/A"))]

NotParsing == [status |-> "none", raised |-> "", result |-> <<>>]
Raised(message) == [status |-> "raised", raised |-> message, result |-> <<>>]

InitParse ==
    /\ pc = "pdfplumber"
    /\ document \in Documents
    /\ raw_text = ""
    /\ parse_result = [status |-> "running", raised |-> "", result |-> <<>>]
    /\ employment_history = <<>>
    /\ profile = PyNone
    /\ field = 0
    /\ value = PyNone
    /\ NoCoerce /\ NoRoute

\* Method 1 with the fallback taken on the empty string only.
ReadWithPdfplumber_EmptyOnly ==
    /\ pc = "pdfplumber"
    /\ raw_text' = PagesText(document.pdfplumber.pages)
    /\ pc' = IF raw_text' = "" THEN "pypdf2" ELSE "sections"
    /\ UNCHANGED <<field, raw_value, field_type, value, employment_history, capture, document,
                   parse_result, profile>>
    /\ UNCHANGED routeVars

\* Method 1: the text of the pages pdfplumber yields; its exception is logged.
ReadWithPdfplumber ==
    /\ pc = "pdfplumber"
    /\ raw_text' = PagesText(document.pdfplumber.pages)
    /\ pc' = IF Strip(raw_text') = "" THEN "pypdf2" ELSE "sections"
    /\ UNCHANGED <<field, raw_value, field_type, value, employment_history, capture, document,
                   parse_result, profile>>
    /\ UNCHANGED routeVars

\* Method 2, when the text so far is blank: PyPDF2's pages are appended.
ReadWithPyPDF2 ==
    /\ pc = "pypdf2"
    /\ raw_text' = raw_text \o PagesText(document.pypdf2.pages)
    /\ pc' = IF Strip(raw_text') = "" THEN "unreadable" ELSE "sections"
    /\ UNCHANGED <<field, raw_value, field_type, value, employment_history, capture, document,
                   parse_result, profile>>
    /\ UNCHANGED routeVars

\* raise Exception("Could not extract text from PDF"), wrapped by parse_pdf.
RaiseUnreadable ==
    /\ pc = "unreadable"
    /\ parse_result' = Raised("PDF parsing failed: Could not extract text from PDF")
    /\ pc' = "raised"
    /\ UNCHANGED <<raw_text, field, raw_value, field_type, value, employment_history, capture,
                   document, profile>>
    /\ UNCHANGED routeVars

\* The result dictionary is initialised and every section extracted into it.
ExtractSections ==
    /\ pc = "sections"
    /\ parse_result' = [parse_result EXCEPT
                           !.result = WithSections(InitialResult(UploadPath, raw_text, Clock),
                                                   raw_text)]
    /\ pc' = "employment"
    /\ UNCHANGED <<raw_text, field, raw_value, field_type, value, employment_history, capture,
                   document, profile>>
    /\ UNCHANGED routeVars

\* result['employment_history'] = self._extract_employment_history(raw_text);
\* an exception of the sort outside its handler leaves parse_pdf wrapped.
ExtractEmploymentHistory ==
    /\ pc = "employment"
    /\ \E sorted \in {ListSortReverse(CompanyRecords(raw_text)
                                           \o UnemploymentRecords(raw_text))} :
           IF sorted.ok \/ "TypeError" \in SortHandler
           THEN /\ employment_history' = sorted.list
                /\ parse_result' = [parse_result EXCEPT
                       !.result = ("employment_history" :> PyList(employment_history'))
                                      @@ parse_result.result]
                /\ pc' = "accidents"
           ELSE /\ employment_history' = employment_history
                /\ parse_result' = Raised("PDF parsing failed: '<' not supported between "
                                              \o "instances of 'NoneType' and 'NoneType'")
                /\ pc' = "raised"
    /\ UNCHANGED <<raw_text, field, raw_value, field_type, value, capture, document, profile>>
    /\ UNCHANGED routeVars

\* result['accident_history'] = self._extract_accident_history(raw_text)
ExtractAccidentHistory ==
    /\ pc = "accidents"
    /\ parse_result' = [parse_result EXCEPT
           !.result = ("accident_history" :> PyList(_extract_accident_history(raw_text)))
                          @@ parse_result.result]
    /\ pc' = "confidence"
    /\ UNCHANGED <<raw_text, field, raw_value, field_type, value, employment_history, capture,
                   document, profile>>
    /\ UNCHANGED routeVars

\* The confidence and the count of extracted fields; the result is returned.
ReturnResult ==
    /\ pc = "confidence"
    /\ parse_result' = [status |-> "returned", raised |-> "",
                        result |-> Finished(parse_result.result)]
    /\ pc' = "returned"
    /\ UNCHANGED <<raw_text, field, raw_value, field_type, value, employment_history, capture,
                   document, profile>>
    /\ UNCHANGED routeVars

\* The assembler applied to the returned result, with the metadata and the
\* risk assessment computed from it.
Assemble ==
    /\ pc = "returned"
    /\ \E readings \in Readings :
           LET result == parse_result.result
           IN  profile' = create_driver_profile_from_parsed_data(
                              result, RouteMetadata("application.pdf", result, result),
                              assess_driver_risk(result), Minted(1, readings))
    /\ pc' = "assembled"
    /\ UNCHANGED <<raw_text, field, raw_value, field_type, value, employment_history, capture,
                   document, parse_result>>
    /\ UNCHANGED routeVars

NextParse ==
    \/ ReadWithPdfplumber
    \/ ReadWithPyPDF2
    \/ RaiseUnreadable
    \/ ExtractSections
    \/ ExtractEmploymentHistory
    \/ ExtractAccidentHistory
    \/ ReturnResult
    \/ Assemble

SpecParse == InitParse /\ [][NextParse]_vars

\* No page text that either library yields holds a character that is not
\* white space.
NoTextByAnyStrategy ==
    \A lib \in {"pdfplumber", "pypdf2"} :
        \A i \in DOMAIN document[lib].pages : Strip(document[lib].pages[i]) = ""

ParseEnded == pc \in {"raised", "returned", "assembled"}

\* C4: parse raises exactly when no text can be extracted by any strategy.
\* Once parse_pdf has ended it has raised if and only if neither library
\* yielded text; it has then no result, partial or whole; with text it has
\* returned a result, whatever the fields, blocks and the sort did; a call
\* that has not ended is at one of the steps of parse_pdf.
C4_RaisesIffNoText ==
    /\ ParseEnded => (parse_result.status = "raised" <=> NoTextByAnyStrategy)
    /\ ParseEnded => (parse_result.status = "returned" <=> ~NoTextByAnyStrategy)
    /\ parse_result.status = "raised" => DOMAIN parse_result.result = {}
    /\ parse_result.status = "returned" =>
           {"raw_text", "employment_history", "accident_history", "parsing_confidence"}
               \subseteq DOMAIN parse_result.result
    /\ ~ParseEnded =>
           /\ pc \in {"pdfplumber", "pypdf2", "unreadable", "sections", "employment",
                      "accidents", "confidence"}
           /\ parse_result.status = "running"

\* A result returned although the sort of the employment history failed.
C4_Witness ==
    /\ pc = "returned"
    /\ parse_result.status = "returned"
    /\ ~ListSortReverse(CompanyRecords(raw_text) \o UnemploymentRecords(raw_text)).ok

\* What each strategy produced for the document at hand.
PrimaryText == PagesText(document.pdfplumber.pages)
SecondaryText == PagesText(document.pypdf2.pages)

TextExtracted == pc \in {"sections", "employment", "accidents", "confidence", "returned",
                         "assembled"}

\* C26: text extraction strategy order.  The secondary strategy runs if and
\* only if the primary strategy produced empty or whitespace-only text, a
\* primary that raised included; when the primary produced non-blank text the
\* returned text is exactly the primary's text; extraction fails only when
\* both strategies produced blank text.
C26_StrategyOrder ==
    /\ [][pc = "pdfplumber" => (pc' = "pypdf2" <=> Strip(PrimaryText) = "")]_vars
    /\ [][(pc' = "pypdf2" \/ pc = "pypdf2") => (pc = "pdfplumber" \/ pc = "pypdf2")]_vars
    /\ [](pc = "pypdf2" => Strip(PrimaryText) = "")
    /\ []((TextExtracted /\ Strip(PrimaryText) # "") => raw_text = PrimaryText)
    /\ []((TextExtracted /\ Strip(PrimaryText) = "") => raw_text = PrimaryText \o SecondaryText)
    /\ []((pc = "unreadable" \/ parse_result.status = "raised")
              => (Strip(PrimaryText) = "" /\ Strip(SecondaryText) = ""))

\* The primary raised after a page of blanks and the secondary gave the text.
C26_Witness ==
    /\ pc = "sections"
    /\ document.pdfplumber.fails
    /\ PrimaryText = " \n"
    /\ SecondaryText = GapPage \o "\n"
    /\ raw_text = " \n" \o GapPage \o "\n"

\* C10: the assembler carries the employment history into the profile.
\* For a result produced by parse, every entry of employment_history appears,
\* in the same order, as an entry of employment.previous_positions with the
\* same employer name, start date, end date and reason for leaving.
C10_HistoryCarried ==
    pc = "assembled" =>
        LET hist == parse_result.result["employment_history"].v
            prev == profile.employment.previous_positions.v
        IN  \E f \in [DOMAIN hist -> DOMAIN prev] :
                /\ \A i, j \in DOMAIN hist : i < j => f[i] < f[j]
                /\ \A i \in DOMAIN hist :
                      /\ prev[f[i]].employer_name = Get(hist[i], "company_name")
                      /\ prev[f[i]].start_date = Get(hist[i], "start_date")
                      /\ prev[f[i]].end_date = Get(hist[i], "end_date")
                      /\ prev[f[i]].reason_for_leaving = Get(hist[i], "reason_for_leaving")

\* The catalog field each flat leaf of the profile corresponds to: the
\* applicant's name, email, phone, address, date of birth and identity number,
\* the license number, class, state and expiration, the school, and the FCRA,
\* PSP and clearinghouse flags.
FlatLeaves ==
    {[group |-> "personal", leaf |-> "full_name", extracted |-> "full_name"],
     [group |-> "personal", leaf |-> "email", extracted |-> "email"],
     [group |-> "personal", leaf |-> "phone", extracted |-> "primary_phone"],
     [group |-> "personal", leaf |-> "address", extracted |-> "current_address"],
     [group |-> "personal", leaf |-> "date_of_birth", extracted |-> "date_of_birth"],
     [group |-> "personal", leaf |-> "social_security", extracted |-> "ssn"],
     [group |-> "license", leaf |-> "license_number", extracted |-> "license_number"],
     [group |-> "license", leaf |-> "license_class", extracted |-> "license_class"],
     [group |-> "license", leaf |-> "license_state", extracted |-> "licensing_authority"],
     [group |-> "license", leaf |-> "license_expiration",
      extracted |-> "license_expiration_date"],
     [group |-> "education", leaf |-> "trucking_school", extracted |-> "trucking_school_name"],
     [group |-> "compliance", leaf |-> "fcra_authorization", extracted |-> "fcra_authorization"],
     [group |-> "compliance", leaf |-> "psp_disclosure",
      extracted |-> "psp_disclosure_authorization"],
     [group |-> "compliance", leaf |-> "clearinghouse_consent",
      extracted |-> "clearinghouse_release"]}

\* C11: the assembler maps the flat fields one to one.  For a result produced
\* by parse, each flat leaf of the personal, license, education and compliance
\* groups is absent exactly when the corresponding extracted field is absent,
\* and otherwise equals the extracted value.
C11_FlatFieldsCarried ==
    pc = "assembled" =>
        \A l \in FlatLeaves :
            profile[l.group][l.leaf] = Get(parse_result.result, l.extracted)

----------------------------------------------------------------------------
\* routes/driver_profiles.py: create_driver_profile, request after request.

MaxRequests == 2

\* The uploads: a request without the pdf_file part, or one with a file name.
\* secure_filename leaves names of ASCII letters and a dot as they are.
Requests ==
    {[has_file |-> FALSE, filename |-> ""]}
        \cup [has_file : {TRUE}, filename : {"", "application.pdf", "SCAN.PDF", "notes.txt"}]

\* The files uploaded: documents each library reads to its last page.
Uploads == {d \in Documents : ~d.pdfplumber.fails /\ ~d.pypdf2.fails}

\* str.endswith
EndsWith(s, suffix) ==
    Len(s) >= Len(suffix) /\ SubSeq(s, Len(s) - Len(suffix) + 1, Len(s)) = suffix

\* The request passes the three checks that answer 400.
Accepted(req) ==
    req.has_file /\ req.filename # "" /\ EndsWith(Lower(req.filename), ".pdf")

\* The name NamedTemporaryFile gives the file of the n-th request.
TempName(n) == "/tmp/tmp" \o IntStr(n) \o ".pdf"

Failure(status, error, message) ==
    [status |-> status, success |-> FALSE, error |-> error, message |-> message]

\* The body of the success response.
SuccessResponse(driver_profile, metadata, filename) ==
    [status |-> 200, success |-> TRUE,
     message |-> "Driver profile created successfully",
     driver_profile |->
         [driver_id |-> driver_profile.driver_id,
          profile_id |-> driver_profile.profile_id,
          personal |-> driver_profile.personal,
          license |-> driver_profile.license,
          employment |->
              [years_experience |-> driver_profile.employment.years_experience,
               current_status |-> driver_profile.employment.current_employment_status,
               previous_positions |-> driver_profile.employment.previous_positions],
          safety |-> driver_profile.safety,
          education |-> driver_profile.education,
          compliance |-> driver_profile.compliance,
          risk_assessment |-> driver_profile.risk_assessment,
          status |-> driver_profile.status,
          created_at |-> driver_profile.created_at],
     metadata |->
         [confidence_score |-> metadata.confidence_score,
          total_fields_extracted |-> metadata.total_fields_extracted,
          processing_time |-> metadata.processing_time,
          filename |-> PyStr(filename)],
     database |-> [stored |-> TRUE, table |-> "driver_profiles",
                   database |-> "driveline_recruit_app"]]

\* if not driver_profile: 500, else the success response.
AnswerCreated(created, metadata, filename) ==
    IF created.profile = PyNone
    THEN [response |-> Failure(500, "Profile creation failed",
                               "Failed to create driver profile from parsed data"),
          table |-> created.table]
    ELSE [response |-> SuccessResponse(created.profile, metadata, filename),
          table |-> created.table]

\* From parsed_data = parse_result['data'] on: metadata, risk, the service.
ProcessData(parsed_data, result, filename, table, storage_, minted) ==
    With(RouteMetadata(filename, parsed_data, result), LAMBDA metadata :
        AnswerCreated(create_profile_from_pdf_data(table, storage_, parsed_data, metadata,
                                                   assess_driver_risk(parsed_data), minted),
                      metadata, filename))

\* except Exception as parse_error, message being str(parse_error)
ProcessingError(message, table) ==
    [response |-> [status |-> 500, success |-> FALSE, error |-> "PDF processing error",
                   message |-> "Error processing PDF: " \o message,
                   details |-> [parse_error |-> message]],
     table |-> table]

\* The inner try block of create_driver_profile once parse_pdf has answered:
\* the response and the table afterwards.  Reading a key the result does not
\* have is a KeyError, caught by the inner handler.  When the result tells of
\* a failure its 'error' and 'details' go into the body as they are; 'data'
\* that is no dictionary has no values() to count.
ProcessResult(parsed, filename, table, storage_, minted) ==
    IF parsed.status = "raised" THEN ProcessingError(parsed.raised, table)
    ELSE IF "success" \notin DOMAIN parsed.result THEN ProcessingError("'success'", table)
    ELSE IF ~Truthy(parsed.result["success"])
    THEN [response |-> [status |-> 500, success |-> FALSE, error |-> "PDF parsing failed",
                        message |-> GetOr(parsed.result, "error",
                                          PyStr("Unknown error occurred during parsing")),
                        details |-> GetOr(parsed.result, "details", PyDict(<<>>))],
          table |-> table]
    ELSE IF "data" \notin DOMAIN parsed.result THEN ProcessingError("'data'", table)
    ELSE IF parsed.result["data"].t # "dict"
    THEN ProcessingError("'" \o TypeName(parsed.result["data"])
                             \o "' object has no attribute 'values'", table)
    ELSE ProcessData(parsed.result["data"].v, parsed.result, filename, table, storage_, minted)

Init ==
    /\ pc = "idle"
    /\ value = PyNone
    /\ request = [has_file |-> FALSE, filename |-> ""]
    /\ response = [status |-> 0]
    /\ temp_path = PyNone
    /\ temp_files = {}
    /\ profiles = <<>>
    /\ storage \in StorageStates
    /\ handled = 0
    /\ NoResolve /\ NoCoerce /\ NoEmployment /\ NoParse

parserVars == <<raw_text, field, raw_value, field_type, value, employment_history, capture>>

\* A request reaches the handler: temp_path = None.
Receive ==
    /\ pc = "idle"
    /\ handled < MaxRequests
    /\ handled' = handled + 1
    /\ request' \in Requests
    /\ document' \in Uploads
    /\ storage' \in StorageStates
    /\ response' = [status |-> 0]
    /\ temp_path' = PyNone
    /\ parse_result' = NotParsing
    /\ pc' = "check"
    /\ UNCHANGED <<temp_files, profiles, profile>>
    /\ UNCHANGED parserVars

\* The three checks on the upload, each answering 400.
Validate ==
    /\ pc = "check"
    /\ IF ~request.has_file
       THEN /\ response' = Failure(400, "No PDF file provided", "Please upload a PDF file")
            /\ pc' = "finally"
       ELSE IF request.filename = ""
       THEN /\ response' = Failure(400, "No file selected",
                                   "Please select a PDF file to upload")
            /\ pc' = "finally"
       ELSE IF ~EndsWith(Lower(request.filename), ".pdf")
       THEN /\ response' = Failure(400, "Invalid file type", "Only PDF files are supported")
            /\ pc' = "finally"
       ELSE /\ response' = response
            /\ pc' = "mktemp"
    /\ UNCHANGED <<document, parse_result, profile, request, temp_path, temp_files, profiles,
                   storage, handled>>
    /\ UNCHANGED parserVars

\* tempfile.NamedTemporaryFile(delete=False, suffix='.pdf') creates the file.
CreateTempFile ==
    /\ pc = "mktemp"
    /\ temp_files' = temp_files \cup {TempName(handled)}
    /\ pc' = "save"
    /\ UNCHANGED <<document, parse_result, profile, request, response, temp_path, profiles,
                   storage, handled>>
    /\ UNCHANGED parserVars

\* file.save(temp_file.name) returns, then temp_path = temp_file.name.
SaveUpload ==
    /\ pc = "save"
    /\ temp_path' = PyStr(TempName(handled))
    /\ pc' = "parse"
    /\ UNCHANGED <<document, parse_result, profile, request, response, temp_files, profiles,
                   storage, handled>>
    /\ UNCHANGED parserVars

\* file.save raises: the outer handler answers, temp_path was not assigned.
SaveUploadFails ==
    /\ pc = "save"
    /\ response' = [status |-> 500, success |-> FALSE, error |-> "Server error",
                    message |-> "Internal server error: save failed",
                    details |-> [server_error |-> "save failed"]]
    /\ pc' = "finally"
    /\ UNCHANGED <<document, parse_result, profile, request, temp_path, temp_files, profiles,
                   storage, handled>>
    /\ UNCHANGED parserVars

\* What the handler holds of a call of parse_pdf.
AsParseResult(parsed) ==
    IF parsed.status = "raised" THEN Raised(parsed.raised)
    ELSE [status |-> "returned", raised |-> "", result |-> parsed.result]

\* The inner try block: parse_pdf on the saved file and what follows it.
ProcessUpload ==
    /\ pc = "parse"
    /\ parse_result' = AsParseResult(parse_pdf(temp_path.v, document, Clock))
    /\ \E readings \in Readings :
         \E done \in {ProcessResult(parse_result', request.filename, profiles, storage,
                                    Minted(Len(profiles) + 1, readings))} :
           /\ response' = done.response
           /\ profiles' = done.table
    /\ pc' = "finally"
    /\ UNCHANGED <<document, profile, request, temp_path, temp_files, storage, handled>>
    /\ UNCHANGED parserVars

\* finally: os.unlink(temp_path) when temp_path is set and the file exists.
CleanUp ==
    /\ pc = "finally"
    /\ temp_files' = IF temp_path # PyNone /\ temp_path.v \in temp_files
                     THEN temp_files \ {temp_path.v}
                     ELSE temp_files
    /\ pc' = "done"
    /\ UNCHANGED <<document, parse_result, profile, request, response, temp_path, profiles,
                   storage, handled>>
    /\ UNCHANGED parserVars

\* os.unlink raises: the cleanup handler logs a warning, the file stays.
CleanUpFails ==
    /\ pc = "finally"
    /\ temp_path # PyNone /\ temp_path.v \in temp_files
    /\ pc' = "done"
    /\ UNCHANGED <<document, parse_result, profile, request, response, temp_path, temp_files,
                   profiles, storage, handled>>
    /\ UNCHANGED parserVars

\* The handler has returned its response; its locals are gone.
Return ==
    /\ pc = "done"
    /\ request' = [has_file |-> FALSE, filename |-> ""]
    /\ response' = [status |-> 0]
    /\ temp_path' = PyNone
    /\ parse_result' = NotParsing
    /\ document' = <<>>
    /\ pc' = "idle"
    /\ UNCHANGED <<profile, temp_files, profiles, storage, handled>>
    /\ UNCHANGED parserVars

Next ==
    \/ Receive
    \/ Validate
    \/ CreateTempFile
    \/ SaveUpload
    \/ SaveUploadFails
    \/ ProcessUpload
    \/ CleanUp
    \/ CleanUpFails
    \/ Return

Spec == Init /\ [][Next]_vars

\* C2: a PDF upload that parses and whose insert succeeds ends in success.
\* When the first request is an accepted upload that was saved, parse_pdf
\* returned an extraction result for it and the database accepts inserts, the
\* request ends with a 200 success response carrying the created driver
\* profile (driver_id, profile_id, nested groups) and exactly one profile is
\* stored.
C2_UploadCreatesProfile ==
    (/\ pc = "done"
     /\ handled = 1
     /\ Accepted(request)
     /\ parse_result.status = "returned"
     /\ storage = "ok")
        => /\ response.status = 200
           /\ response.success
           /\ {"driver_id", "profile_id", "personal", "license", "employment", "safety",
               "education", "compliance"} \subseteq DOMAIN response.driver_profile
           /\ Len(profiles) = 1

\* C3: the temporary file is deleted on every exit path.  When a request in
\* which the temporary file was created has completed, that file no longer
\* exists.
C3_TempFileDeleted ==
    (pc = "done" /\ Accepted(request)) => TempName(handled) \notin temp_files

----------------------------------------------------------------------------
\* services/profile_service.py: a caller that holds an extraction result and
\* asks the service for a profile, again after a failure.

MaxAttempts == 3

\* The documents parse_pdf returns a result for.
Readable == {d \in Uploads : _extract_text_from_pdf(d).ok}

InitService ==
    /\ pc = "holding"
    /\ document \in Readable
    /\ parse_result = AsParseResult(parse_pdf(UploadPath, document, Clock))
    /\ storage \in StorageStates
    /\ profile = PyNone
    /\ profiles = <<>>
    /\ handled = 0
    /\ value = PyNone
    /\ request = [has_file |-> FALSE, filename |-> ""]
    /\ response = [status |-> 0]
    /\ temp_path = PyNone
    /\ temp_files = {}
    /\ NoResolve /\ NoCoerce /\ employment_history = <<>>

\* profile_service.create_profile_from_pdf_data(parsed_data, metadata, risk)
CreateProfile ==
    /\ pc = "holding"
    /\ handled < MaxAttempts
    /\ handled' = handled + 1
    /\ \E readings \in Readings :
         \E created \in {create_profile_from_pdf_data(
                           profiles, storage, parse_result.result,
                           RouteMetadata("application.pdf", parse_result.result,
                                         parse_result.result),
                           assess_driver_risk(parse_result.result),
                           Minted(handled', readings))} :
           /\ profiles' = created.table
           /\ profile' = created.profile
           /\ pc' = IF created.profile = PyNone THEN "failed" ELSE "created"
    /\ UNCHANGED <<document, parse_result, storage, request, response, temp_path, temp_files>>
    /\ UNCHANGED parserVars

\* The caller asks again; the database may have recovered meanwhile.
Retry ==
    /\ pc = "failed"
    /\ storage' \in StorageStates
    /\ pc' = "holding"
    /\ UNCHANGED <<document, parse_result, profile, profiles, handled, request, response,
                   temp_path, temp_files>>
    /\ UNCHANGED parserVars

NextService == CreateProfile \/ Retry

SpecService == InitService /\ [][NextService]_vars

\* C12: a storage failure is surfaced as a failed operation and the extraction
\* output is not lost.  An insert that stored no row, or from which no row
\* came back, has the service answer None; the caller still holds the
\* extraction result parse_pdf gave for the document, and an attempt made with
\* it when the database accepts the insert stores exactly one row, built from
\* that result, without the document being parsed again.
C12_StorageFailureKeepsExtraction ==
    /\ pc = "failed" =>
          /\ storage # "ok"
          /\ profile = PyNone
          /\ ~Writes(storage) => RowsOf(profiles, PyStr(uuid4(handled))) = {}
    /\ pc \in {"holding", "failed", "created"} =>
          /\ parse_result.status = "returned"
          /\ {"raw_text", "employment_history", "accident_history", "parsing_confidence"}
                 \subseteq DOMAIN parse_result.result
          /\ parse_result.result["raw_text"] = PyStr(_extract_text_from_pdf(document).text)
    /\ pc = "created" =>
          /\ storage = "ok"
          /\ profile # PyNone
          /\ RowsOf(profiles, PyStr(uuid4(handled))) = {Len(profiles)}
          /\ profiles[Len(profiles)] = ProfileRow(profile)
          /\ \A k \in {"full_name", "email", "license_number"} :
                 profiles[Len(profiles)][k] = Get(parse_result.result, k)

C12_Witness ==
    /\ pc = "created"
    /\ handled = MaxAttempts
    /\ Len(profiles) = 1
    /\ profiles[1].full_name = PyStr("Jane Roe")

----------------------------------------------------------------------------
\* models/driver_profile.py: to_json_safe applied to one profile.

MaxItems == 2

\* The list-typed fields: risk factors (strings) and previous positions
\* (employment records).
FactorItems == {PyStr(""), PyStr("Traffic violations")}
PositionItems == {EmploymentRecord(PyNone, PyNone), EmploymentRecord(PyStr("Acme Freight"), PyStr(""))}

\* The profiles serialized: a DriverProfile() with some fields given.
InitProfile ==
    /\ pc = "profile"
    /\ \E full_name \in {PyNone, PyStr(""), PyStr("Jane Roe")},
          license_number \in {PyNone, PyStr("X1234567")},
          processed_at \in {PyNone, PyStr(Clock)},
          factors \in SeqsUpTo(FactorItems, MaxItems),
          positions \in SeqsUpTo(PositionItems, MaxItems),
          readings \in Readings :
          profile = [DriverProfile(Minted(1, readings)) EXCEPT
                        !.personal.full_name = full_name,
                        !.license.license_number = license_number,
                        !.metadata.processed_at = processed_at,
                        !.risk_assessment.factors = PyList(factors),
                        !.employment.previous_positions = PyList(positions)]
    /\ value = PyNone
    /\ document = <<>>
    /\ employment_history = <<>>
    /\ parse_result = NotParsing
    /\ NoResolve /\ NoCoerce /\ NoRoute

\* profile.to_json_safe()
Serialize ==
    /\ pc = "profile"
    /\ value' = to_json_safe(profile)
    /\ pc' = "serialized"
    /\ UNCHANGED <<raw_text, field, raw_value, field_type, employment_history, capture, document,
                   parse_result, profile>>
    /\ UNCHANGED routeVars

NextProfile == Serialize

SpecProfile == InitProfile /\ [][NextProfile]_vars

\* A null, an empty string or an empty sequence somewhere in a structure, as
\* a dictionary value or a list element.
RECURSIVE HoldsEmpty(_)
HoldsEmpty(x) ==
    IF IsValue(x)
    THEN \/ x.t = "None"
         \/ x.t = "str" /\ x.v = ""
         \/ x.t = "list" /\ (x.v = <<>> \/ \E i \in DOMAIN x.v : HoldsEmpty(x.v[i]))
         \/ x.t = "dict" /\ \E k \in DOMAIN x.v : HoldsEmpty(x.v[k])
    ELSE \E k \in DOMAIN x : HoldsEmpty(x[k])

\* C13: the output of to_json_safe holds no null, no empty string and no
\* empty sequence anywhere in the nested structure, as a dictionary value or
\* as a list element at any depth, for every profile.
C13_NoEmptiesAnywhere == pc = "serialized" => ~HoldsEmpty(value)

\* Every optional field of the profile is absent and its lists are empty.
AllAbsent ==
    /\ \A g \in {"personal", "license", "safety", "education", "compliance"} :
           \A k \in DOMAIN profile[g] : profile[g][k] = PyNone
    /\ profile.employment = [years_experience |-> PyNone, current_employment_status |-> PyNone,
                             previous_positions |-> PyList(<<>>)]
    /\ profile.risk_assessment.factors = PyList(<<>>)
    /\ profile.metadata.filename = PyNone /\ profile.metadata.processing_time = PyNone

\* C14: to_json_safe of a profile whose optional fields are all absent holds
\* only the identifiers and the structural defaults: the status, the
\* timestamps and the default risk and metadata values.  No absent optional
\* field has an entry; each group of optional fields is left empty.
C14_OnlyIdentifiersAndDefaults ==
    (pc = "serialized" /\ AllAbsent) =>
        /\ DOMAIN value = {"driver_id", "profile_id", "personal", "license", "employment",
                           "safety", "education", "compliance", "risk_assessment", "metadata",
                           "status", "created_at", "updated_at"}
        /\ \A g \in {"personal", "license", "employment", "safety", "education", "compliance"} :
               DOMAIN value[g] = {}
        /\ value.driver_id = PyStr(uuid4(1))
        /\ value.profile_id = PyStr("DRV-C0FFEE01")
        /\ value.status = PyStr("pending")
        /\ \E i \in DOMAIN Instants : value.created_at = PyStr(Instants[i])
        /\ \E i \in DOMAIN Instants : value.updated_at = PyStr(Instants[i])
        /\ value.risk_assessment =
               [level |-> PyStr("Unknown"), score |-> PyInt("0"), color |-> PyStr("gray")]
        /\ value.metadata =
               IF profile.metadata.processed_at = PyNone
               THEN [confidence_score |-> PyFloat("0.0"), total_fields_extracted |-> PyInt("0"),
                     api_version |-> PyStr("2.0")]
               ELSE [confidence_score |-> PyFloat("0.0"), total_fields_extracted |-> PyInt("0"),
                     api_version |-> PyStr("2.0"), processed_at |-> PyStr(Clock)]

C14_Witness ==
    /\ pc = "serialized"
    /\ AllAbsent
    /\ profile.metadata.processed_at = PyNone
    /\ DOMAIN value.personal = {}
    /\ "factors" \notin DOMAIN value.risk_assessment

----------------------------------------------------------------------------
\* routes/driver_profiles.py: assess_driver_risk applied to one dictionary of
\* profile data.

\* What each safety field may hold, with the keyword groups that occur in
\* some letter case in str() of the value: in the text of a string, and for
\* another value in what it prints as, the keys of a dictionary and the
\* escapes of a string inside a list among it.
Absent == [v |-> PyNone, holds |-> {}, missing |-> TRUE]
Holding(v, groups) == [v |-> v, holds |-> groups, missing |-> FALSE]

\* An accident as _extract_accident_history records it.
AccidentRecord(type) ==
    [k \in {AccidentFields[i][1] : i \in DOMAIN AccidentFields} |->
        IF k = "type" THEN PyStr(type) ELSE PyNone]

CriminalTexts ==
    {Absent, Holding(PyNone, {}), Holding(PyStr("No record"), {}),
     Holding(PyStr("Felony conviction 2015"), {"felony"}),
     Holding(PyStr("CONVICTION, 2011"), {"felony"}),
     Holding(PyStr("Misdemeanor 2019"), {"misdemeanor"}),
     Holding(PyStr("Felony 2015 and misdemeanor 2019"), {"felony", "misdemeanor"})}
AccidentTexts ==
    {Absent, Holding(PyList(<<>>), {}), Holding(PyStr("Rear-end Collision 2019"), {"accident"}),
     Holding(PyList(<<AccidentRecord("Non-preventable accident")>>), {"accident"}),
     Holding(PyList(<<AccidentRecord("Rollover")>>), {}),
     Holding(PyList(<<AccidentRecord("ccident")>>), {"accident"})}
LicenseTexts ==
    {Absent, Holding(PyStr("Valid"), {}), Holding(PyStr("Suspended 2018"), {"suspended"}),
     Holding(PyStr("license REVOKED"), {"suspended"})}
DrugTexts ==
    {Absent, Holding(PyStr("Negative"), {}), Holding(PyStr("Failed pre-employment test"), {"failed"}),
     Holding(PyBool(TRUE), {}),
     Holding(PyDict(<<<<"note", PyStr("FAILED")>>>>), {"failed"})}
TrafficTexts ==
    {Absent, Holding(PyStr("Clean"), {}), Holding(PyStr("Speeding Ticket 2021"), {"violation"}),
     Holding(PyList(<<AccidentRecord("Rollover")>>), {"violation"})}

RiskKeys ==
    [criminal_record_status |-> CriminalTexts, accident_history |-> AccidentTexts,
     license_suspensions |-> LicenseTexts, drug_test_results |-> DrugTexts,
     traffic_violations |-> TrafficTexts]

\* The dictionary of profile data a choice of texts makes.
ProfileData(choice) ==
    [k \in {k \in DOMAIN choice : ~choice[k].missing} |-> choice[k].v]

InitRisk ==
    /\ pc = "risk"
    /\ \E choice \in [DOMAIN RiskKeys -> UNION {RiskKeys[k] : k \in DOMAIN RiskKeys}] :
          /\ \A k \in DOMAIN RiskKeys : choice[k] \in RiskKeys[k]
          /\ capture = [form |-> "risk", holds |-> UNION {choice[k].holds : k \in DOMAIN choice}]
          /\ parse_result = [status |-> "returned", raised |-> "", result |-> ProfileData(choice)]
    /\ value = PyNone
    /\ profile = PyNone
    /\ raw_value = "" /\ field_type = ""
    /\ NoResolve /\ NoEmployment /\ NoRoute

\* risk_assessment = assess_driver_risk(parsed_data)
Assess ==
    /\ pc = "risk"
    /\ value' = assess_driver_risk(parse_result.result)
    /\ pc' = "assessed"
    /\ UNCHANGED <<raw_text, field, raw_value, field_type, employment_history, capture, document,
                   parse_result, profile>>
    /\ UNCHANGED routeVars

NextRisk == Assess

SpecRisk == InitRisk /\ [][NextRisk]_vars

Weight(groups, group, weight) == IF group \in groups THEN weight ELSE 0

\* C15, as claimed: the risk score is the sum of the weights of every keyword
\* group that occurs, in any letter case, in its safety field (in str() of the
\* field's value): felony or conviction 3, misdemeanor 1, accident or
\* collision 2, suspended or revoked 3, failed or positive 3, violation or
\* ticket 1.
C15_EveryGroupCounts ==
    pc = "assessed" =>
        value.score = PyInt(IntStr(
            Weight(capture.holds, "felony", 3) + Weight(capture.holds, "misdemeanor", 1)
            + Weight(capture.holds, "accident", 2) + Weight(capture.holds, "suspended", 3)
            + Weight(capture.holds, "failed", 3) + Weight(capture.holds, "violation", 1)))

\* C15, amended: the same sum over the groups that occur in str() of the
\* field's value, except that misdemeanor counts 1 only when neither felony
\* nor conviction occurs in the criminal field.
C15_WorstCriminalGroupCounts ==
    pc = "assessed" =>
        value.score = PyInt(IntStr(
            (IF "felony" \in capture.holds THEN 3 ELSE Weight(capture.holds, "misdemeanor", 1))
            + Weight(capture.holds, "accident", 2) + Weight(capture.holds, "suspended", 3)
            + Weight(capture.holds, "failed", 3) + Weight(capture.holds, "violation", 1)))

C15_Witness ==
    /\ pc = "assessed"
    /\ capture.holds = {"felony", "misdemeanor", "suspended", "violation"}
    /\ value.score = PyInt("7")

\* C16: the level is a function of the score only: 5 or more is High and red,
\* 2 to 4 Medium and yellow, less than 2 Low and green; with felony in the
\* criminal field and suspended in the license field the score is at least 6
\* and the level High.
C16_LevelFromScore ==
    pc = "assessed" =>
        /\ \E n \in 0..12 :
              /\ value.score = PyInt(IntStr(n))
              /\ n >= 5 => value.level = PyStr("High") /\ value.color = PyStr("red")
              /\ (n >= 2 /\ n < 5) => value.level = PyStr("Medium") /\ value.color = PyStr("yellow")
              /\ n < 2 => value.level = PyStr("Low") /\ value.color = PyStr("green")
              /\ (/\ Get(parse_result.result, "criminal_record_status")
                         \in {PyStr("Felony conviction 2015"),
                              PyStr("Felony 2015 and misdemeanor 2019")}
                  /\ Get(parse_result.result, "license_suspensions") = PyStr("Suspended 2018"))
                    => n >= 6 /\ value.level = PyStr("High")

C16_Witness ==
    /\ pc = "assessed"
    /\ value.score = PyInt("5")
    /\ value.level = PyStr("High")
    /\ capture.holds = {"accident", "suspended"}

----------------------------------------------------------------------------
\* enhanced_pdf_parser.py: _calculate_parsing_confidence applied to one
\* result, for a parser over one catalog (self.field_mappings).

MaxCatalog == 3

\* Short catalogs: the first fields of a list taken from the catalog.
ShortList == <<"full_name", "referral_code", "email", "license_number", "country">>
ShortCatalog(n) == [i \in 1..n |-> get_field_by_name(ShortList[i])]
Catalogs == {ShortCatalog(n) : n \in 0..MaxCatalog} \cup {ALL_ENHANCED_FIELD_MAPPINGS}

\* What a result may hold under a field name: no entry, None, or a value the
\* coercion of the field's type gives.
ScoredValues ==
    [full_name |-> PyStr("Jane Roe"), referral_code |-> PyStr("RC-77"),
     email |-> PyStr("jane.roe@example.com"), license_number |-> PyStr("X1234567")]
Histories == {PyList(<<>>), PyList(<<EmploymentRecord(PyStr("Acme Freight"), PyNone)>>)}

ScoredResults ==
    {[k \in present |-> IF k = "employment_history" THEN history
                        ELSE IF k \in nulls THEN PyNone ELSE ScoredValues[k]] :
        present \in SUBSET (DOMAIN ScoredValues \cup {"employment_history"}),
        nulls \in SUBSET {"full_name", "referral_code"},
        history \in Histories}

InitConfidence ==
    /\ pc = "score"
    /\ \E field_mappings \in Catalogs :
           capture = [form |-> "confidence", field_mappings |-> field_mappings]
    /\ \E result \in ScoredResults :
           parse_result = [status |-> "running", raised |-> "", result |-> result]
    /\ value = PyNone
    /\ profile = PyNone
    /\ raw_value = "" /\ field_type = ""
    /\ NoResolve /\ NoEmployment /\ NoRoute

\* confidence = self._calculate_parsing_confidence(result)
Score ==
    /\ pc = "score"
    /\ value' = PyFloat(HundredthsRepr(ConfidenceOver(capture.field_mappings,
                                                      parse_result.result)))
    /\ pc' = "scored"
    /\ UNCHANGED <<raw_text, field, raw_value, field_type, employment_history, capture, document,
                   parse_result, profile>>
    /\ UNCHANGED routeVars

NextConfidence == Score

SpecConfidence == InitConfidence /\ [][NextConfidence]_vars

\* The number of catalog fields, and the adjusted count: the catalog fields
\* with a value, 5 for a non-empty employment history, 2 for each of
\* full_name, email and license_number that is populated.
Total == Len(capture.field_mappings)
Adjusted ==
    Cardinality({i \in 1..Total :
                    Get(parse_result.result, capture.field_mappings[i].field_name) # PyNone})
    + (IF Get(parse_result.result, "employment_history") \in Histories \ {PyList(<<>>)}
       THEN 5 ELSE 0)
    + 2 * Cardinality({n \in {"full_name", "email", "license_number"} :
                          Get(parse_result.result, n) # PyNone})

\* C17: the confidence score is within [0, 100] for every result, and exactly
\* 0 when the field catalog is empty.
C17_ConfidenceBounds ==
    pc = "scored" =>
        \E h \in 0..10000 :
            /\ value = PyFloat(HundredthsRepr(h))
            /\ Total = 0 => h = 0

C17_Witness ==
    /\ pc = "scored"
    /\ Total = 1
    /\ Adjusted = 8
    /\ value = PyFloat("100.0")

\* C18, as claimed: the confidence score equals min(100, 100 * adjusted /
\* total), total the number of catalog fields, adjusted as counted above (the
\* three required fields in the base as well).
C18_ExactQuotient ==
    (pc = "scored" /\ Total > 0) =>
        \E h \in 0..10000 :
            /\ value = PyFloat(HundredthsRepr(h))
            /\ IF Adjusted >= Total THEN h = 10000 ELSE h * Total = 10000 * Adjusted

\* C18, amended: the confidence score is that quotient rounded to two decimal
\* places, the hundredth nearest to it, and 0 when the catalog is empty.
C18_RoundedQuotient ==
    pc = "scored" =>
        \E h \in 0..10000 :
            /\ value = PyFloat(HundredthsRepr(h))
            /\ IF Total = 0 THEN h = 0
               ELSE IF Adjusted >= Total THEN h = 10000
               ELSE /\ 2 * (h * Total - 10000 * Adjusted) <= Total
                    /\ 2 * (10000 * Adjusted - h * Total) <= Total

C18_Witness ==
    /\ pc = "scored"
    /\ Total = 91
    /\ Adjusted = 11
    /\ value = PyFloat("12.09")

----------------------------------------------------------------------------
\* The stored profiles: creations through the service, update-status and
\* fetch-by-id requests through their routes, in any order.  value and
\* profile hold what the request just answered fetched or created.

MaxStored == 2

\* Values uuid.uuid4() can return.  Two of them agree on their first eight
\* characters.  uuid4 is taken never to return the same value twice.
Uuids ==
    {"3f2a9c1e-58d4-4b7a-9c0e-1f6a2b3c4d5e",
     "3f2a9c1e-0b6f-4e21-8a47-9d3c5e7f1a2b",
     "a81d4fae-7dec-41d0-a765-00a0c91e6bf6"}

\* The parsed data handed to the service.
StoredData ==
    {[full_name |-> PyStr("Jane Roe"), email |-> PyStr("jane.roe@example.com"),
      license_number |-> PyStr("X1234567"), criminal_record_status |-> PyStr("felony in 2001")],
     [full_name |-> PyStr("John Doe")]}

\* What request.get_json() gives the update-status route: it raises, it
\* returns None, it returns the JSON string "status" (on which data['status']
\* raises TypeError), or it returns a dictionary with or without a status.
StatusValues ==
    {PyStr("reviewed"), PyStr("approved"), PyStr("archived"), PyStr("Approved"), PyNone}
StatusBodies ==
    {[kind |-> "raises"], [kind |-> "none"], [kind |-> "text"],
     [kind |-> "dict", entries |-> <<>>]}
    \cup {[kind |-> "dict", entries |-> [status |-> v]] : v \in StatusValues}

\* The readings of the clock taken for a stored profile: the clock moves on
\* at every reading, or stands still through the three.
StoreReadings == {<<Clock, LaterClock, LatestClock>>, <<Clock, Clock, Clock>>}

\* The uuids minted so far and the profiles inserted so far, row by row.
StoreLog(minted, inserted) == [form |-> "store", minted |-> minted, inserted |-> inserted]

InitStore ==
    /\ pc = "serving"
    /\ profiles = <<>>
    /\ profile = PyNone
    /\ value = PyNone
    /\ storage \in {"ok", "raises"}
    /\ request = [op |-> "none"]
    /\ response = [status |-> 0]
    /\ capture = StoreLog({}, <<>>)
    /\ handled = 0
    /\ temp_path = PyNone
    /\ temp_files = {}
    /\ document = <<>>
    /\ employment_history = <<>>
    /\ parse_result = NotParsing
    /\ NoResolve
    /\ raw_value = "" /\ field_type = ""

\* profile_service.create_profile_from_pdf_data(parsed_data, metadata, risk)
\* for a new upload: DriverProfile.__post_init__ mints the identifiers.
StoreProfile ==
    /\ pc = "serving"
    /\ Len(profiles) < MaxStored
    /\ value' = PyNone
    /\ \E parsed_data \in StoredData, uuid \in Uuids \ capture.minted,
          readings \in StoreReadings :
         \E created \in {create_profile_from_pdf_data(
                             profiles, storage, parsed_data,
                             RouteMetadata("application.pdf", parsed_data, parsed_data),
                             assess_driver_risk(parsed_data),
                             [Minted(1, readings) EXCEPT !.uuid = uuid])} :
            /\ profiles' = created.table
            /\ profile' = created.profile
            /\ request' = [op |-> "create"]
            /\ response' = [status |-> IF created.profile = PyNone THEN 500 ELSE 200]
            /\ capture' = StoreLog(capture.minted \cup {uuid},
                                   IF created.profile = PyNone THEN capture.inserted
                                   ELSE Append(capture.inserted, created.profile))
    /\ UNCHANGED <<pc, raw_text, field, raw_value, field_type, employment_history, document,
                   parse_result, temp_path, temp_files, storage, handled>>

\* PUT /profiles/<driver_id>/status
UpdateStatus ==
    /\ pc = "serving"
    /\ \E driver_id \in Uuids, body \in StatusBodies :
         /\ request' = [op |-> "status", driver_id |-> driver_id, body |-> body]
         /\ IF body.kind \in {"raises", "text"}
            THEN response' = [status |-> 500] /\ profiles' = profiles
            ELSE IF body.kind = "none" \/ body.entries = <<>> \/ "status" \notin DOMAIN body.entries
            THEN response' = [status |-> 400] /\ profiles' = profiles
            ELSE IF ~(body.entries.status.t = "str" /\ body.entries.status.v \in valid_statuses)
            THEN response' = [status |-> 400] /\ profiles' = profiles
            ELSE \E outcome \in {update_profile_status(profiles, storage, PyStr(driver_id),
                                                       body.entries.status)} :
                    /\ profiles' = outcome.table
                    /\ response' = [status |-> IF outcome.updated THEN 200 ELSE 500]
    /\ value' = PyNone /\ profile' = PyNone
    /\ UNCHANGED <<pc, raw_text, field, raw_value, field_type, employment_history, capture,
                   document, parse_result, temp_path, temp_files, storage, handled>>

\* GET /profiles/<driver_id>
GetProfile ==
    /\ pc = "serving"
    /\ \E driver_id \in Uuids :
         /\ request' = [op |-> "get", driver_id |-> driver_id]
         /\ value' = get_profile_by_id(profiles, storage, PyStr(driver_id))
         /\ response' = [status |-> IF value' = PyNone THEN 404 ELSE 200]
    /\ profile' = PyNone
    /\ UNCHANGED <<pc, raw_text, field, raw_value, field_type, employment_history, capture,
                   document, parse_result, profiles, temp_path, temp_files, storage, handled>>

\* The database goes down or comes back between requests.
StorageChanges ==
    /\ pc = "serving"
    /\ storage' \in {"ok", "raises"} \ {storage}
    /\ UNCHANGED <<pc, raw_text, field, raw_value, field_type, value, employment_history, capture,
                   document, parse_result, profile, request, response, temp_path, temp_files,
                   profiles, handled>>

NextStore == StoreProfile \/ UpdateStatus \/ GetProfile \/ StorageChanges

SpecStore == InitStore /\ [][NextStore]_vars

\* C22: identifiers are never reused.  Over any sequence of profile creations
\* no two profiles share an internal id (driver_id) and no two profiles share
\* a display id (profile_id).
C22_IdentifiersNeverReused ==
    \A i, j \in DOMAIN capture.inserted :
        i # j => /\ capture.inserted[i].driver_id # capture.inserted[j].driver_id
                 /\ capture.inserted[i].profile_id # capture.inserted[j].profile_id

\* The statuses a stored profile may have.
ProfileStatuses == {PyStr("pending"), PyStr("reviewed"), PyStr("approved"), PyStr("rejected")}

\* The update-status request being answered names a status outside the four.
OtherStatusAsked ==
    /\ request'.op = "status"
    /\ request'.body.kind = "dict"
    /\ "status" \in DOMAIN request'.body.entries
    /\ request'.body.entries.status \notin ProfileStatuses

\* C27: after any sequence of create-profile and update-status requests the
\* status of every stored profile is one of pending, reviewed, approved and
\* rejected: a new profile starts as pending, and an update-status request
\* with any other status value is rejected and leaves every stored profile
\* unchanged.
C27_StatusAlwaysValid ==
    /\ [](\A i \in DOMAIN profiles : profiles[i].status \in ProfileStatuses)
    /\ [][(request'.op = "create" /\ Len(profiles') > Len(profiles))
              => profiles'[Len(profiles')].status = PyStr("pending")]_vars
    /\ [][OtherStatusAsked => (response'.status = 400 /\ profiles' = profiles)]_vars

C27_Witness ==
    /\ request.op = "status"
    /\ request.body = [kind |-> "dict", entries |-> [status |-> PyStr("archived")]]
    /\ response.status = 400
    /\ Len(profiles) = 2
    /\ profiles[1].status = PyStr("approved")
    /\ profiles[2].status = PyStr("pending")
    /\ profiles[1].driver_id = PyStr(request.driver_id)

\* C28: insert then fetch-by-id.  After a profile is stored successfully,
\* get_profile_by_id with its driver_id returns a profile with the same
\* driver_id, profile_id and status and with the same personal, license,
\* safety and risk-assessment values as the profile that was inserted.
C28_FetchReturnsInserted ==
    (request.op = "get" /\ value # PyNone) =>
        \A i \in RowsOf(profiles, PyStr(request.driver_id)) :
            profiles[i].updated_at = capture.inserted[i].updated_at =>
                /\ value.driver_id = capture.inserted[i].driver_id
                /\ value.profile_id = capture.inserted[i].profile_id
                /\ value.status = capture.inserted[i].status
                /\ value.personal = capture.inserted[i].personal
                /\ value.license = capture.inserted[i].license
                /\ value.safety = capture.inserted[i].safety
                /\ value.risk_assessment = capture.inserted[i].risk_assessment


----------------------------------------------------------------------------
\* models/driver_profile.py: clean_dict, the cleaning step of to_json_safe,
\* applied to a nested structure and then to its own output.

Keys == {"factors", "notes"}

\* Nulls, strings and numbers.
Atoms == {PyNone, PyStr(""), PyStr("Acme Freight"), PyInt("0")}

\* Lists of atoms, and dictionaries of atoms and short lists.
AtomLists == {PyList(items) : items \in SeqsUpTo(Atoms, MaxItems)}
DictsOver(Values) == UNION {[keys -> Values] : keys \in SUBSET Keys}
InnerDicts == DictsOver(Atoms \cup {PyList(<<>>), PyList(<<PyNone>>)})

\* The structures cleaned: dictionaries of atoms, lists and dictionaries,
\* lists of atoms, and lists of one dictionary.
Structures ==
    DictsOver(Atoms \cup AtomLists \cup InnerDicts)
        \cup AtomLists
        \cup {PyList(<<d>>) : d \in InnerDicts}

InitClean ==
    /\ pc = "structure"
    /\ profile \in Structures
    /\ value = PyNone
    /\ capture = PyNone
    /\ raw_text = "" /\ field = 0 /\ raw_value = "" /\ field_type = ""
    /\ employment_history = <<>> /\ document = <<>>
    /\ parse_result = NotParsing
    /\ NoRoute

\* clean_dict(d)
Clean ==
    /\ pc = "structure"
    /\ value' = clean_dict(profile)
    /\ pc' = "cleaned"
    /\ UNCHANGED <<raw_text, field, raw_value, field_type, employment_history, capture, document,
                   parse_result, profile>>
    /\ UNCHANGED routeVars

\* clean_dict applied to the output of clean_dict
CleanAgain ==
    /\ pc = "cleaned"
    /\ capture' = clean_dict(value)
    /\ pc' = "recleaned"
    /\ UNCHANGED <<raw_text, field, raw_value, field_type, value, employment_history, document,
                   parse_result, profile>>
    /\ UNCHANGED routeVars

NextClean ==
    \/ Clean
    \/ CleanAgain

SpecClean == InitClean /\ [][NextClean]_vars

\* C30: the cleaning step of to_json_safe is idempotent: applying it to its
\* own output returns that output unchanged, for every nested structure of
\* dictionaries, lists, strings, numbers and nulls.
C30_CleanIdempotent == pc = "recleaned" => capture = value


----------------------------------------------------------------------------
\* routes/driver_profiles.py, enhanced_pdf_parser.py: two invocations of
\* pdf_parser.parse_pdf, each on its own document, interleaved step by step.
\* The parser object of the module is shared; raw_text, result and the
\* histories are locals of each invocation.

Invocations == {1, 2}

\* pdf_parser = EnhancedTenstreetPDFParser(): the fields __init__ sets.
\* field_mappings is the catalog's own list.
Parser == [field_mappings |-> ALL_ENHANCED_FIELD_MAPPINGS, sections |-> get_all_sections]

\* The documents parsed side by side.
SharedDocuments ==
    [pdfplumber : [pages : {<<>>, <<" ">>, <<ApplicationPage>>}, fails : {FALSE}],
     pypdf2 : [pages : {<<>>, <<GapPage>>}, fails : {FALSE}]]

Running == [status |-> "running", raised |-> "", result |-> <<>>]

InitInvocations ==
    /\ pc = [t \in Invocations |-> "pdfplumber"]
    /\ document \in {d \in [Invocations -> SharedDocuments] : d[1] # d[2]}
    /\ raw_text = [t \in Invocations |-> ""]
    /\ parse_result = [t \in Invocations |-> Running]
    /\ employment_history = [t \in Invocations |-> <<>>]
    /\ capture = Parser
    /\ profile = PyNone
    /\ value = PyNone
    /\ field = 0 /\ raw_value = "" /\ field_type = ""
    /\ NoRoute

\* What no step of parse_pdf assigns: the parser's fields, and what lies
\* outside the invocations.
ParserUntouched ==
    /\ UNCHANGED <<field, raw_value, field_type, value, capture, document, profile>>
    /\ UNCHANGED routeVars

\* Method 1 with the text kept in a buffer the invocations share.
ReadPrimary_SharedBuffer(t) ==
    /\ pc[t] = "pdfplumber"
    /\ raw_text' = [u \in Invocations |-> PagesText(document[t].pdfplumber.pages)]
    /\ pc' = [pc EXCEPT ![t] = IF Strip(raw_text'[t]) = "" THEN "pypdf2" ELSE "sections"]
    /\ UNCHANGED <<parse_result, employment_history>>
    /\ ParserUntouched

\* Method 1 of _extract_text_from_pdf in invocation t.
ReadPrimary(t) ==
    /\ pc[t] = "pdfplumber"
    /\ raw_text' = [raw_text EXCEPT ![t] = PagesText(document[t].pdfplumber.pages)]
    /\ pc' = [pc EXCEPT ![t] = IF Strip(raw_text'[t]) = "" THEN "pypdf2" ELSE "sections"]
    /\ UNCHANGED <<parse_result, employment_history>>
    /\ ParserUntouched

\* Method 2 in invocation t; with no text still, parse_pdf raises.
ReadSecondary(t) ==
    /\ pc[t] = "pypdf2"
    /\ raw_text' = [raw_text EXCEPT ![t] = @ \o PagesText(document[t].pypdf2.pages)]
    /\ IF Strip(raw_text'[t]) = ""
       THEN /\ parse_result' = [parse_result EXCEPT ![t] =
                    Raised("PDF parsing failed: Could not extract text from PDF")]
            /\ pc' = [pc EXCEPT ![t] = "raised"]
       ELSE /\ parse_result' = parse_result
            /\ pc' = [pc EXCEPT ![t] = "sections"]
    /\ UNCHANGED employment_history
    /\ ParserUntouched

\* The result dictionary of invocation t and its sections.
ReadSections(t) ==
    /\ pc[t] = "sections"
    /\ \E result \in {WithSections(InitialResult(TempName(t), raw_text[t], Clock), raw_text[t])} :
           parse_result' = [parse_result EXCEPT ![t].result = result]
    /\ pc' = [pc EXCEPT ![t] = "employment"]
    /\ UNCHANGED <<raw_text, employment_history>>
    /\ ParserUntouched

\* The employment history of invocation t; the failure of the sort is passed.
ReadEmployment(t) ==
    /\ pc[t] = "employment"
    /\ \E history \in {_extract_employment_history(raw_text[t])} :
           /\ employment_history' = [employment_history EXCEPT ![t] = history]
           /\ parse_result' = [parse_result EXCEPT ![t].result =
                                   ("employment_history" :> PyList(history)) @@ @]
    /\ pc' = [pc EXCEPT ![t] = "accidents"]
    /\ UNCHANGED raw_text
    /\ ParserUntouched

\* The accident history of invocation t.
ReadAccidents(t) ==
    /\ pc[t] = "accidents"
    /\ \E history \in {_extract_accident_history(raw_text[t])} :
           parse_result' = [parse_result EXCEPT ![t].result =
                               ("accident_history" :> PyList(history)) @@ @]
    /\ pc' = [pc EXCEPT ![t] = "confidence"]
    /\ UNCHANGED <<raw_text, employment_history>>
    /\ ParserUntouched

\* The confidence and the count of fields; invocation t returns.
ReturnParsed(t) ==
    /\ pc[t] = "confidence"
    /\ \E result \in {Finished(parse_result[t].result)} :
           parse_result' = [parse_result EXCEPT
                               ![t] = [status |-> "returned", raised |-> "", result |-> result]]
    /\ pc' = [pc EXCEPT ![t] = "returned"]
    /\ UNCHANGED <<raw_text, employment_history>>
    /\ ParserUntouched

NextInvocations ==
    \/ \E t \in Invocations : ReadPrimary(t)
    \/ \E t \in Invocations : ReadSecondary(t)
    \/ \E t \in Invocations : ReadSections(t)
    \/ \E t \in Invocations : ReadEmployment(t)
    \/ \E t \in Invocations : ReadAccidents(t)
    \/ \E t \in Invocations : ReturnParsed(t)

SpecInvocations == InitInvocations /\ [][NextInvocations]_vars

\* What the claim compares of an outcome: everything but the clock reading.
Compared(outcome) ==
    [outcome EXCEPT !.result =
        [k \in DOMAIN outcome.result \ {"parsing_timestamp"} |-> outcome.result[k]]]

\* parse_pdf of invocation t's document run alone.
Alone(t) == AsParseResult(parse_pdf(TempName(t), document[t], Clock))

\* C23: parse invocations are independent under concurrency.  Whatever the
\* interleaving of two invocations on different documents that share the
\* parser of the module and the catalog, an invocation that has ended has the
\* flat fields, the histories and the confidence it has when run alone, and
\* the parser's fields, the catalog among them, are as constructed.
C23_InvocationsIndependent ==
    /\ capture = Parser
    /\ \A t \in Invocations :
           pc[t] \in {"returned", "raised"} => Compared(parse_result[t]) = Compared(Alone(t))

\* The first invocation has returned the application's fields while the
\* second, begun on a document of another text, is still under way.
C23_Witness ==
    /\ pc[1] = "returned" /\ pc[2] = "accidents"
    /\ raw_text[1] = ApplicationPage \o "\n"
    /\ raw_text[2] = " \n" \o GapPage \o "\n"
    /\ parse_result[1].result["full_name"] = PyStr("Jane Roe")
    /\ Len(parse_result[1].result["employment_history"].v) = 2
    /\ Len(employment_history[2]) = 1
    /\ "full_name" \notin DOMAIN parse_result[2].result

====
